---- MODULE Spec2Model ----
(***************************************************************************)
(* Audio stream caching service (hello-rust server).                       *)
(*                                                                         *)
(* The model follows the server side of the repository:                    *)
(*   MemoryMappedCache  (server/memory/memory_mapped_cache.rs)             *)
(*   StreamContext      (server/memory/stream_context.rs)                  *)
(*   StreamManager      (server/memory/stream_manager.rs)                  *)
(*   WebSocketMessageHandler (server/handler/websocket_message_handler.rs) *)
(*   AudioWebSocketServer    (server/network/audio_websocket_server.rs)    *)
(*                                                                         *)
(* One worker thread per connection runs the read loop.  A handler is cut  *)
(* into steps where another worker can observe a difference: a call of    *)
(* the StreamManager is one step (create_stream and delete_stream hold the *)
(* registry mutex for their whole body; write_chunk, read_chunk and        *)
(* finalize_stream hold the stream's context mutex for their whole body,   *)
(* and no handler removes a context, so the lookup that precedes them      *)
(* commutes with the other workers' steps), and so is each later update of *)
(* the connection's binding and each reply.  A frame written to a          *)
(* connection is held in out until websocket.send returns (Flush); the     *)
(* send shares nothing with the other workers, so it is taken to return    *)
(* before any worker's next step.                                          *)
(*                                                                         *)
(* Spec is the server as it runs, with file-system and mmap calls          *)
(* succeeding.  SpecWithFaults adds a remap or a set_len that fails inside *)
(* a growing write.  SpecWithDelete adds a caller of                       *)
(* StreamManager::delete_stream.  SpecPool and SpecCache are the           *)
(* MemoryPoolManager and a MemoryMappedCache used directly by callers.     *)
(* SpecManager is the StreamManager called from concurrent threads, cut    *)
(* at every lock; SpecManagerCleanup adds cleanup_old_streams.             *)
(***************************************************************************)
EXTENDS Integers, Sequences, FiniteSets, TLC

(* ------------------------------ bounds -------------------------------- *)
NumConns == 2
NumStreams == 2
MaxByte == 1
MaxStreamLen == 2
MaxChunkLen == 2
NumThreads == 2
BufferSize == 2
PoolSize == 2
MaxTotalBuffers == 4
MaxGen == 2
MaxClock == 3

Conns == 1..NumConns
AllIds == <<"s1", "s2", "s3", "s4">>
StreamIds == {AllIds[i] : i \in 1..NumStreams}
Bytes == 0..MaxByte
Chunks == UNION {[1..n -> Bytes] : n \in 0..MaxChunkLen}
Offsets == 0..MaxStreamLen
Lengths == 0..MaxStreamLen
Threads == 1..NumThreads

(* --------------------------- program constants ------------------------ *)
DEFAULT_GET_LENGTH == 65536

(* ------------------------------ byte helpers -------------------------- *)
\* Variant: the requested length is used without clamping.
Min_first(a, b) == a

Min(a, b) == IF a < b THEN a ELSE b
Max(a, b) == IF a > b THEN a ELSE b

\* Variant: the file is recreated zero-filled at the new length.
SetLen_zeroed(b, n) == [i \in 1..n |-> 0]

\* File::set_len: truncate, or extend with zero bytes.
SetLen(b, n) == [i \in 1..n |-> IF i <= Len(b) THEN b[i] ELSE 0]

\* Variant: the data is copied to the start of the mapping.
CopyFromSlice_at_zero(b, offset, data) ==
    [i \in 1..Len(b) |-> IF i <= Len(data) THEN data[i] ELSE b[i]]

\* mmap[offset..offset + data.len()].copy_from_slice(data)
CopyFromSlice(b, offset, data) ==
    [i \in 1..Len(b) |->
        IF i > offset /\ i <= offset + Len(data) THEN data[i - offset] ELSE b[i]]

\* Variant: the copy starts at the beginning of the mapping.
Slice_from_zero(b, offset, n) == [i \in 1..n |-> b[i]]

\* mmap[offset..offset + n].to_vec()
Slice(b, offset, n) == [i \in 1..n |-> b[offset + i]]

(* ------------------------- MemoryMappedCache -------------------------- *)
(* A cache value is the record of the struct's fields: file (a handle is   *)
(* held), mmap (a mapping is held) with mmap_len its length, size,         *)
(* is_open.  The file on disk is [exists, bytes]; a mapping is shared, so  *)
(* its bytes are the file's bytes.  Every operator returns the result of   *)
(* the call with the cache and file it leaves behind.                      *)

NewCache == [file |-> FALSE, mmap |-> FALSE, mmap_len |-> 0, size |-> 0,
             is_open |-> FALSE]
NoFile == [exists |-> FALSE, bytes |-> << >>]

map_file(c, f) ==
    IF c.file /\ c.size > 0
    THEN [ret |-> TRUE, cache |-> [c EXCEPT !.mmap = TRUE, !.mmap_len = Len(f.bytes)], fl |-> f]
    ELSE [ret |-> FALSE, cache |-> c, fl |-> f]

\* create keeps its guard on self.file until it returns.  For initial_size > 0
\* it calls map_file, which locks self.file again on the same thread: that
\* lock() does not return (it blocks for ever or panics), so neither does
\* create.  hangs tells that the call did not return; the cache and file are
\* then as the second lock() found them.
create(c, f, initial_size) ==
    LET f1 == [exists |-> TRUE, bytes |-> SetLen(<< >>, initial_size)]
        c1 == [c EXCEPT !.size = initial_size, !.file = TRUE]
    IN  IF initial_size > 0
        THEN [ret |-> FALSE, hangs |-> TRUE, cache |-> c1, fl |-> f1]
        ELSE [ret |-> TRUE, hangs |-> FALSE,
              cache |-> [c1 EXCEPT !.is_open = TRUE], fl |-> f1]

open(c, f) ==
    IF ~f.exists
    THEN [ret |-> FALSE, cache |-> c, fl |-> f]
    ELSE LET c1 == [c EXCEPT !.size = Len(f.bytes), !.file = TRUE]
             m  == IF Len(f.bytes) > 0 THEN map_file(c1, f)
                   ELSE [ret |-> TRUE, cache |-> c1, fl |-> f]
         IN  IF m.ret
             THEN [ret |-> TRUE, cache |-> [m.cache EXCEPT !.is_open = TRUE], fl |-> f]
             ELSE [ret |-> FALSE, cache |-> m.cache, fl |-> f]

unmap_file(c) == [c EXCEPT !.mmap = FALSE, !.mmap_len = 0]

\* Variant: a resize that ends without a mapping reports failure.
resize_needs_mapping(c, f, new_size) ==
    IF ~c.is_open
    THEN [ret |-> FALSE, cache |-> c, fl |-> f]
    ELSE LET c1 == unmap_file(c)
             f1 == IF c1.file THEN [f EXCEPT !.bytes = SetLen(f.bytes, new_size)] ELSE f
         IN  map_file([c1 EXCEPT !.size = new_size], f1)

resize(c, f, new_size) ==
    IF ~c.is_open
    THEN [ret |-> FALSE, cache |-> c, fl |-> f]
    ELSE LET c1 == unmap_file(c)
             f1 == IF c1.file THEN [f EXCEPT !.bytes = SetLen(f.bytes, new_size)] ELSE f
             c2 == [c1 EXCEPT !.size = new_size]
         IN  IF new_size > 0 THEN map_file(c2, f1)
             ELSE [ret |-> TRUE, cache |-> c2, fl |-> f1]

\* ret is the number of bytes written (0 on any failure); hangs tells that
\* the create of a cache that was not open did not return.
write(c, f, offset, data) ==
    LET o == IF ~c.is_open THEN create(c, f, offset + Len(data))
             ELSE [ret |-> TRUE, hangs |-> FALSE, cache |-> c, fl |-> f]
        required_size == offset + Len(data)
        current_size == o.cache.size
        r == IF required_size > current_size \/ ~o.cache.mmap
             THEN resize(o.cache, o.fl, Max(required_size, current_size))
             ELSE [ret |-> TRUE, cache |-> o.cache, fl |-> o.fl]
    IN  IF o.hangs THEN [ret |-> 0, hangs |-> TRUE, cache |-> o.cache, fl |-> o.fl]
        ELSE IF ~o.ret THEN [ret |-> 0, hangs |-> FALSE, cache |-> o.cache, fl |-> o.fl]
        ELSE IF ~r.ret THEN [ret |-> 0, hangs |-> FALSE, cache |-> r.cache, fl |-> r.fl]
        ELSE IF r.cache.mmap /\ offset + Len(data) <= r.cache.mmap_len
        THEN [ret |-> Len(data), hangs |-> FALSE, cache |-> r.cache,
              fl |-> [r.fl EXCEPT !.bytes = CopyFromSlice(r.fl.bytes, offset, data)]]
        ELSE [ret |-> 0, hangs |-> FALSE, cache |-> r.cache, fl |-> r.fl]

\* ret is the byte sequence read (empty on any failure).
read(c, f, offset, length) ==
    LET o == IF ~c.is_open \/ ~c.mmap THEN open(c, f)
             ELSE [ret |-> TRUE, cache |-> c, fl |-> f]
        size == o.cache.size
        actual_length == Min(length, size - offset)
    IN  IF ~o.ret THEN [ret |-> << >>, cache |-> o.cache, fl |-> o.fl]
        ELSE IF offset >= size THEN [ret |-> << >>, cache |-> o.cache, fl |-> o.fl]
        ELSE IF o.cache.mmap /\ offset + actual_length <= o.cache.mmap_len
        THEN [ret |-> Slice(o.fl.bytes, offset, actual_length), cache |-> o.cache, fl |-> o.fl]
        ELSE [ret |-> << >>, cache |-> o.cache, fl |-> o.fl]

\* Variant: the file keeps one byte of padding after the data.
finalize_padded(c, f, final_size) ==
    IF ~c.is_open
    THEN [ret |-> FALSE, cache |-> c, fl |-> f]
    ELSE resize(c, f, final_size + 1)

\* Variant: the file is truncated to nothing.
finalize_empty(c, f, final_size) ==
    IF ~c.is_open
    THEN [ret |-> FALSE, cache |-> c, fl |-> f]
    ELSE resize(c, f, 0)

finalize(c, f, final_size) ==
    IF ~c.is_open
    THEN [ret |-> FALSE, cache |-> c, fl |-> f]
    ELSE resize(c, f, final_size)

\* MemoryMappedCache::flush (flushing a mapping changes no state).
flush(c) == c.is_open

\* Variant: close marks an open cache closed and a closed cache open.
close_toggle(c) == [unmap_file(c) EXCEPT !.is_open = ~c.is_open]

\* MemoryMappedCache::close: the mapping is dropped when the cache is open;
\* self.file and is_open are left as they are.
close(c) == IF c.is_open THEN unmap_file(c) ELSE c

(* ---------------------- StreamContext / StreamManager ----------------- *)
\* StreamContext::new, before create_stream fills it in.
NewContext == [status |-> "UPLOADING", current_offset |-> 0, total_size |-> 0,
               mmap_file |-> FALSE, cache |-> NewCache]

VARIABLES
    streams,    \* StreamManager.streams: the set of ids present in the registry
    ctx,        \* the StreamContext of each id (NewContext while absent)
    files,      \* the cache file of each id on disk
    clients,    \* AudioWebSocketServer.clients: connection id -> bound stream id
    th,         \* per connection worker: position in its handler and its locals
    out,        \* the frame the last step wrote to a connection, with the request it answers
    written,    \* history: the frames handed to write_chunk while the stream was UPLOADING, concatenated
    sentFor,    \* history: total length of the binary frames received under a binding to the id
    started     \* history: number of STARTED replies sent for the id

\* The components that are used on their own, next to the server.
VARIABLES
    available_buffers,  \* MemoryPoolManager.available_buffers
    total_buffers,      \* MemoryPoolManager.total_buffers
    puser,              \* per caller of the pool: its position and the buffer it owns
    mcache,             \* a MemoryMappedCache used directly, without a StreamManager
    mfile,              \* the file at its path
    mcall,              \* the last call on it: operation, arguments, result, outcome
    registry,           \* StreamManager.streams as its callers' threads see it:
                        \* per id the context registered (0: none)
    contexts,           \* every StreamContext made so far: status and age
    created,            \* per id how many contexts were made for it
    exists,             \* per id whether its cache file is on disk
    streams_lock,       \* owner of the mutex of StreamManager.streams (0: free)
    streams_poisoned,   \* that mutex was held by a thread that panicked
    ctx_lock,           \* owner of each context's mutex
    cache_lock,         \* thread inside a call of each context's cache
    caller              \* per thread: the call it is in and how far it got

\* The connection ids as the workers draw them from the clock.
VARIABLES
    now,        \* SystemTime::now() since UNIX_EPOCH, in nanoseconds
    client_id,  \* per worker: the client_id of its connection (0: no connection)
    id_clients  \* AudioWebSocketServer.clients, keyed by client_id

\* The threads that call one MemoryMappedCache (mcache, mfile) directly.
VARIABLES
    cuser       \* per thread: the call it is in, its arguments and locals,
                \* and which lock of the cache it takes next

\* The StreamManager called by threads, with the contexts as objects: a
\* context that left the registry lives on while a thread holds its Arc.
VARIABLES
    heap,       \* every StreamContext made so far, by id and generation
    inode,      \* the file each context's cache holds open (exists: linked at its path)
    racer       \* per thread: the write_chunk it is in, after its get_stream

serverVars == <<streams, ctx, files, clients, th, out, written, sentFor, started>>
poolVars == <<available_buffers, total_buffers, puser>>
cacheVars == <<mcache, mfile, mcall>>
managerVars == <<registry, contexts, created, exists, streams_lock,
                 streams_poisoned, ctx_lock, cache_lock, caller>>
idVars == <<now, client_id, id_clients>>
raceVars == <<heap, inode, racer>>
compVars == <<poolVars, cacheVars, managerVars, idVars, cuser, raceVars>>
notPool == <<serverVars, cacheVars, managerVars, idVars, cuser, raceVars>>
notCache == <<serverVars, poolVars, managerVars, idVars, cuser, raceVars>>
notManager == <<serverVars, poolVars, cacheVars, idVars, cuser, raceVars>>
notId == <<serverVars, poolVars, cacheVars, managerVars, cuser, raceVars>>
notShared == <<serverVars, poolVars, managerVars, idVars, mcall, raceVars>>
notRace == <<serverVars, poolVars, cacheVars, idVars, cuser, contexts, exists,
             streams_lock, streams_poisoned, ctx_lock, cache_lock, caller>>

vars == <<streams, ctx, files, clients, th, out, written, sentFor, started, compVars>>

Idle == [pc |-> "idle", sid |-> ""]
Closed == [pc |-> "closed", sid |-> ""]

\* Variant: no contains_key check, the insert replaces the context.
create_stream_overwrite(reg, cx, fs, s) ==
    LET m == create(NewCache, fs[s], 0)
    IN  [ret |-> TRUE, streams |-> reg \cup {s},
         ctx |-> [cx EXCEPT ![s] = [NewContext EXCEPT !.mmap_file = TRUE, !.cache = m.cache]],
         files |-> [fs EXCEPT ![s] = m.fl]]

\* Variant: an id that is present is reported as created.
create_stream_idempotent(reg, cx, fs, s) ==
    IF s \in reg
    THEN [ret |-> TRUE, streams |-> reg, ctx |-> cx, files |-> fs]
    ELSE create_stream_overwrite(reg, cx, fs, s)

\* Variant: the cache file is created before the contains_key check.
create_stream_reset(reg, cx, fs, s) ==
    IF s \in reg
    THEN [ret |-> FALSE, streams |-> reg, ctx |-> cx,
          files |-> [fs EXCEPT ![s] = create(NewCache, fs[s], 0).fl]]
    ELSE create_stream_overwrite(reg, cx, fs, s)

\* StreamManager::create_stream, the whole body under the registry mutex.
create_stream(reg, cx, fs, s) ==
    IF s \in reg
    THEN [ret |-> FALSE, streams |-> reg, ctx |-> cx, files |-> fs]
    ELSE LET m == create(NewCache, fs[s], 0)
             context == [NewContext EXCEPT !.status = "UPLOADING",
                                           !.mmap_file = TRUE, !.cache = m.cache]
         IN  IF ~m.ret
             THEN [ret |-> FALSE, streams |-> reg, ctx |-> cx,
                   files |-> [fs EXCEPT ![s] = m.fl]]
             ELSE [ret |-> TRUE, streams |-> reg \cup {s},
                   ctx |-> [cx EXCEPT ![s] = context],
                   files |-> [fs EXCEPT ![s] = m.fl]]

\* Variant: the cursor advances but total_size is not updated.
write_chunk_no_total(found, x, f, data) ==
    IF ~found \/ x.status # "UPLOADING" \/ ~x.mmap_file
    THEN [ret |-> FALSE, ctx |-> x, fl |-> f]
    ELSE LET w == write(x.cache, f, x.current_offset, data)
             x1 == [x EXCEPT !.cache = w.cache]
         IN  IF w.ret > 0
             THEN [ret |-> TRUE,
                   ctx |-> [x1 EXCEPT !.current_offset = x.current_offset + w.ret],
                   fl |-> w.fl]
             ELSE [ret |-> FALSE, ctx |-> x1, fl |-> w.fl]

\* Variant: total_size advances but the cursor stays where it was.
write_chunk_no_cursor(found, x, f, data) ==
    IF ~found \/ x.status # "UPLOADING" \/ ~x.mmap_file
    THEN [ret |-> FALSE, ctx |-> x, fl |-> f]
    ELSE LET w == write(x.cache, f, x.current_offset, data)
             x1 == [x EXCEPT !.cache = w.cache]
         IN  IF w.ret > 0
             THEN [ret |-> TRUE,
                   ctx |-> [x1 EXCEPT !.total_size = x.total_size + w.ret],
                   fl |-> w.fl]
             ELSE [ret |-> FALSE, ctx |-> x1, fl |-> w.fl]

\* Variant: the status is not checked.
write_chunk_any_status(found, x, f, data) ==
    IF ~found \/ ~x.mmap_file
    THEN [ret |-> FALSE, ctx |-> x, fl |-> f]
    ELSE LET w == write(x.cache, f, x.current_offset, data)
             x1 == [x EXCEPT !.cache = w.cache]
         IN  IF w.ret > 0
             THEN [ret |-> TRUE,
                   ctx |-> [x1 EXCEPT !.current_offset = x.current_offset + w.ret,
                                      !.total_size = x.total_size + w.ret],
                   fl |-> w.fl]
             ELSE [ret |-> FALSE, ctx |-> x1, fl |-> w.fl]

\* StreamManager::write_chunk; found is the result of get_stream.
write_chunk(found, x, f, data) ==
    IF ~found \/ x.status # "UPLOADING" \/ ~x.mmap_file
    THEN [ret |-> FALSE, ctx |-> x, fl |-> f]
    ELSE LET current_offset == x.current_offset
             w == write(x.cache, f, current_offset, data)
             x1 == [x EXCEPT !.cache = w.cache]
         IN  IF w.ret > 0
             THEN [ret |-> TRUE,
                   ctx |-> [x1 EXCEPT !.current_offset = current_offset + w.ret,
                                      !.total_size = x.total_size + w.ret],
                   fl |-> w.fl]
             ELSE [ret |-> FALSE, ctx |-> x1, fl |-> w.fl]

\* StreamManager::read_chunk; found is the result of get_stream.
read_chunk(found, x, f, offset, length) ==
    IF ~found \/ ~x.mmap_file
    THEN [ret |-> << >>, ctx |-> x, fl |-> f]
    ELSE LET r == read(x.cache, f, offset, length)
         IN  [ret |-> r.ret, ctx |-> [x EXCEPT !.cache = r.cache], fl |-> r.fl]

\* StreamManager::finalize_stream; found is the result of get_stream.
finalize_stream(found, x, f) ==
    IF ~found \/ x.status # "UPLOADING" \/ ~x.mmap_file
    THEN [ret |-> FALSE, ctx |-> x, fl |-> f]
    ELSE LET z == finalize(x.cache, f, x.total_size)
             x1 == [x EXCEPT !.cache = z.cache]
         IN  IF z.ret
             THEN [ret |-> TRUE, ctx |-> [x1 EXCEPT !.status = "READY"], fl |-> z.fl]
             ELSE [ret |-> FALSE, ctx |-> x1, fl |-> z.fl]

\* StreamManager::delete_stream, the whole body under the registry mutex: the
\* context leaves the map, its cache is closed and the cache file removed.
\* The closed cache goes away with the context; the context of an id that is
\* not in the registry is NewContext.
\* Variant: the cache file is left on disk.
delete_stream_keeps_file(reg, cx, fs, s) ==
    IF s \in reg
    THEN [ret |-> TRUE, streams |-> reg \ {s},
          ctx |-> [cx EXCEPT ![s] = NewContext], files |-> fs]
    ELSE [ret |-> FALSE, streams |-> reg, ctx |-> cx, files |-> fs]

delete_stream(reg, cx, fs, s) ==
    IF s \in reg
    THEN [ret |-> TRUE, streams |-> reg \ {s},
          ctx |-> [cx EXCEPT ![s] = NewContext],
          files |-> [fs EXCEPT ![s] = IF fs[s].exists THEN NoFile ELSE fs[s]]]
    ELSE [ret |-> FALSE, streams |-> reg, ctx |-> cx, files |-> fs]

(* ------------------------------ wire format --------------------------- *)
None == [some |-> FALSE, v |-> ""]
Some(x) == [some |-> TRUE, v |-> x]

\* serde_json::to_string of the server's ControlMessage: `type` is renamed,
\* the other fields keep their Rust names, a None field is skipped.
Serialize(m) ==
    {<<"type", m.msg_type>>}
    \cup (IF m.stream_id.some THEN {<<"stream_id", m.stream_id.v>>} ELSE {})
    \cup (IF m.message.some THEN {<<"message", m.message.v>>} ELSE {})

NoFrame == [kind |-> "none", json |-> {}, data |-> << >>]
TextFrame(m) == [kind |-> "text", json |-> Serialize(m), data |-> << >>]
BinaryFrame(d) == [kind |-> "binary", json |-> {}, data |-> d]

\* The offset and length fields of a GET as data[..].as_u64() yields them.
NoU64 == [some |-> FALSE, v |-> 0]
NoArg == [offset |-> NoU64, length |-> NoU64]

\* What a step wrote: to which connection, answering which request (its
\* type, streamId and, for a GET, offset and length).
Emit(c, req, sid, arg, frame) ==
    [conn |-> c, req |-> req, sid |-> sid, arg |-> arg, frame |-> frame]
NoOut == Emit(0, "", "", NoArg, NoFrame)

\* Variant: the reply is built but never written to the socket.
send_json_dropped(m) == NoFrame

send_json(m) == TextFrame(m)

\* Variant: every error carries the same fixed text.
send_error_generic(message) ==
    send_json([msg_type |-> "ERROR", stream_id |-> None, message |-> Some("Error")])

send_error(message) ==
    send_json([msg_type |-> "ERROR", stream_id |-> None, message |-> Some(message)])

(* --------------------------- connection ids --------------------------- *)
(* A worker takes the clock reading at accept time as its client_id and    *)
(* uses it as the key of its binding.  SystemTime is the wall clock: two   *)
(* readings may be equal.                                                  *)
Clock == 1..MaxClock

IdInit ==
    /\ now = 1
    /\ client_id = [w \in Conns |-> 0]
    /\ id_clients = << >>

(* ------------------- MemoryMappedCache, shared ------------------------ *)
(* The cache has four mutexes (file, mmap, size, is_open); each is locked  *)
(* for one statement or one block.  A thread that calls the cache directly *)
(* is followed from lock to lock.                                          *)
NotUsing == [op |-> "idle", pc |-> "idle", offset |-> 0, data |-> << >>,
             length |-> 0, new_size |-> 0, size |-> 0]
Using(op, offset, data, length, new_size) ==
    [op |-> op, pc |-> op, offset |-> offset, data |-> data, length |-> length,
     new_size |-> new_size, size |-> 0]

\* What the threads write: zero bytes (the sizes and the mapping are what
\* is followed, not the contents).
SharedChunks == {d \in Chunks : \A i \in DOMAIN d : d[i] = 0}

SharedInit == cuser = [t \in Threads |-> NotUsing]

(* -------------------------- MemoryPoolManager ------------------------- *)
(* The pool is built by instance(buffer_size, pool_size) and handed to the *)
(* server, whose handlers do not use it; its callers here are threads that *)
(* acquire a buffer, write into it or change its length (they own the      *)
(* Vec), bring a buffer of their own, and release or drop it.              *)
ZeroBuffer == [i \in 1..BufferSize |-> 0]
CallerBuffers ==
    UNION {[1..n -> {0, 1}] : n \in {BufferSize - 1, BufferSize, BufferSize + 1}}

\* What a caller holds: nothing, a buffer acquire_buffer returned (acquired)
\* or a buffer it made itself.
NoBuffer == [has |-> FALSE, acquired |-> FALSE, buf |-> << >>]
Owns(b) == [has |-> TRUE, acquired |-> TRUE, buf |-> b]
Brought(b) == [has |-> TRUE, acquired |-> FALSE, buf |-> b]
PoolIdle == [pc |-> "idle", own |-> NoBuffer]

\* buffer.fill(0)
Fill0(b) == [i \in 1..Len(b) |-> 0]

\* Variant: the buffer goes back whatever the pool holds.
release_buffer_unbounded(av, buffer) ==
    IF Len(buffer) # BufferSize THEN av ELSE Append(av, Fill0(buffer))

\* Variant: the buffer goes back as the caller left it.
release_buffer_dirty(av, buffer) ==
    IF Len(buffer) # BufferSize THEN av
    ELSE IF Len(av) < PoolSize THEN Append(av, buffer)
    ELSE av

\* MemoryPoolManager::release_buffer: the available buffers it leaves.
release_buffer(av, buffer) ==
    IF Len(buffer) # BufferSize THEN av
    ELSE IF Len(av) < PoolSize THEN Append(av, Fill0(buffer))
    ELSE av

PoolInit ==
    /\ available_buffers = [i \in 1..PoolSize |-> ZeroBuffer]
    /\ total_buffers = PoolSize
    /\ puser = [t \in Threads |-> PoolIdle]

(* ---------------------- MemoryMappedCache on its own ------------------ *)
\* A call that returned has status "returned".  A call that does not return
\* leaves its thread blocked or panicked: which of the two is left open by
\* std::sync::Mutex for a second lock() on the thread that holds the lock.
Called(op, offset, len, ret, status) ==
    [op |-> op, offset |-> offset, len |-> len, ret |-> ret, status |-> status]
NoCall == Called("new", 0, 0, TRUE, "returned")
Outcomes(hangs) == IF hangs THEN {"blocked", "panicked"} ELSE {"returned"}

CacheInit ==
    /\ mcache = NewCache
    /\ mfile = NoFile
    /\ mcall = NoCall

(* ------------------ StreamManager and its locks ----------------------- *)
(* The calls of the StreamManager seen from the threads that make them,    *)
(* cut at every lock: the mutex of the registry, the mutex of each         *)
(* context, and the mutexes inside each context's cache (taken one call at *)
(* a time under the context's mutex, so one lock per cache stands for      *)
(* them).  A context is an Arc: a thread keeps the one it looked up after  *)
(* the id was deleted or created again, so a context is named by its id    *)
(* and the number of the creation that made it.  What the calls do to the  *)
(* bytes is in the server specifications; here a context carries its       *)
(* status and whether last_accessed_at is older than the cutoff of a       *)
(* cleanup.                                                                *)
Handles == StreamIds \X (1..MaxGen)
Handle(s, g) == <<s, g>>
FreshContext == [status |-> "UPLOADING", old |-> FALSE]
NotCalling == [op |-> "idle", pc |-> "idle", sid |-> "", gen |-> 0,
               todo |-> {}, to_remove |-> {}]
Call(op, s) == [NotCalling EXCEPT !.op = op, !.pc = "lock_streams", !.sid = s]
At(t, op, pc) == caller[t].op = op /\ caller[t].pc = pc
Ctx(t) == Handle(caller[t].sid, caller[t].gen)

ManagerInit ==
    /\ registry = [s \in StreamIds |-> 0]
    /\ contexts = [h \in Handles |-> FreshContext]
    /\ created = [s \in StreamIds |-> 0]
    /\ exists = [s \in StreamIds |-> FALSE]
    /\ streams_lock = 0
    /\ streams_poisoned = FALSE
    /\ ctx_lock = [h \in Handles |-> 0]
    /\ cache_lock = [h \in Handles |-> 0]
    /\ caller = [t \in Threads |-> NotCalling]

(* -------------------------------- Init -------------------------------- *)
(* ------------------- StreamManager, contexts as objects ---------------- *)
NotRacing == [pc |-> "idle", sid |-> "", gen |-> 0, data |-> << >>]
Holding(s, g, data) == [pc |-> "lock_ctx", sid |-> s, gen |-> g, data |-> data]

RaceInit ==
    /\ heap = [h \in Handles |-> NewContext]
    /\ inode = [h \in Handles |-> NoFile]
    /\ racer = [t \in Threads |-> NotRacing]

Init ==
    /\ streams = {}
    /\ ctx = [s \in StreamIds |-> NewContext]
    /\ files = [s \in StreamIds |-> NoFile]
    /\ clients = << >>
    /\ th = [c \in Conns |-> Closed]
    /\ out = NoOut
    /\ written = [s \in StreamIds |-> << >>]
    /\ sentFor = [s \in StreamIds |-> 0]
    /\ started = [s \in StreamIds |-> 0]
    /\ PoolInit
    /\ CacheInit
    /\ ManagerInit
    /\ IdInit
    /\ SharedInit
    /\ RaceInit

(* ------------------------ AudioWebSocketServer ------------------------ *)
\* A connection is accepted: its worker registers an empty binding.
Accept(c) ==
    /\ out = NoOut
    /\ th[c].pc = "closed"
    /\ clients' = (c :> "") @@ clients
    /\ th' = [th EXCEPT ![c] = Idle]
    /\ out' = NoOut
    /\ UNCHANGED <<streams, ctx, files, written, sentFor, started>>
    /\ UNCHANGED compVars

\* Variant: the stream the connection is bound to leaves the registry too.
Disconnect_drops_stream(c) ==
    /\ out = NoOut
    /\ th[c].pc = "idle"
    /\ clients' = [d \in (DOMAIN clients) \ {c} |-> clients[d]]
    /\ streams' = streams \ {clients[c]}
    /\ th' = [th EXCEPT ![c] = Closed]
    /\ out' = NoOut
    /\ UNCHANGED <<ctx, files, written, sentFor, started>>
    /\ UNCHANGED compVars

\* Message::Close or a failed read: the binding is removed, the loop ends.
Disconnect(c) ==
    /\ out = NoOut
    /\ th[c].pc = "idle"
    /\ clients' = [d \in (DOMAIN clients) \ {c} |-> clients[d]]
    /\ th' = [th EXCEPT ![c] = Closed]
    /\ out' = NoOut
    /\ UNCHANGED <<streams, ctx, files, written, sentFor, started>>
    /\ UNCHANGED compVars

(* ----------------------- WebSocketMessageHandler ---------------------- *)
UnknownTypes == {"PAUSE", ""}
unwrap_or(opt, default) == IF opt.some THEN opt.v ELSE default
GetRequests ==
    {[offset |-> Some(o), length |-> Some(l)] : o \in Offsets, l \in Lengths}
    \cup {NoArg}

\* Variant: one active stream for the whole server instead of one per connection.
active_stream_any(cl, c) ==
    IF \E d \in DOMAIN cl : cl[d] # ""
    THEN cl[CHOOSE d \in DOMAIN cl : cl[d] # ""]
    ELSE ""

\* handle_binary_message: clients.get(&client_id).cloned(), "" when there is none.
active_stream(cl, c) == IF c \in DOMAIN cl THEN cl[c] ELSE ""

\* Variant: the binding is not registered before the reply.
bind_on_start_noop(cl, c, s) == cl

\* handle_start: clients.lock().unwrap().insert(client_id, stream_id.clone())
bind_on_start(cl, c, s) == (c :> s) @@ cl

\* Variant: the binding is not cleared.
unbind_on_stop_noop(cl, c) == cl

\* handle_stop: clients.lock().unwrap().insert(client_id, String::new())
unbind_on_stop(cl, c) == (c :> "") @@ cl

\* handle_text_message: serde_json::from_str fails.
TextInvalidJson(c) ==
    /\ out = NoOut
    /\ th[c].pc = "idle"
    /\ out' = Emit(c, "INVALID", "", NoArg, send_error("Invalid JSON format"))
    /\ UNCHANGED <<streams, ctx, files, clients, th, written, sentFor, started>>
    /\ UNCHANGED compVars

\* handle_text_message: `type` is none of START, STOP, GET ("" when it is missing).
TextUnknownType(c) ==
    /\ out = NoOut
    /\ th[c].pc = "idle"
    /\ \E t \in UnknownTypes :
          out' = Emit(c, t, "", NoArg, send_error("Unknown message type: " \o t))
    /\ UNCHANGED <<streams, ctx, files, clients, th, written, sentFor, started>>
    /\ UNCHANGED compVars

\* handle_start / handle_stop / handle_get: `streamId` is missing or not a string.
TextMissingStreamId(c) ==
    /\ out = NoOut
    /\ th[c].pc = "idle"
    /\ out' = Emit(c, "MISSING", "", NoArg, send_error("Missing streamId"))
    /\ UNCHANGED <<streams, ctx, files, clients, th, written, sentFor, started>>
    /\ UNCHANGED compVars

\* handle_start: START{streamId: s} is read and create_stream runs.  When it
\* returns true the binding is set (clients.insert(client_id, stream_id)) and
\* the reply is still to be sent; when it returns false the ERROR reply ends
\* the handler.
Start(c, s) ==
    /\ out = NoOut
    /\ th[c].pc = "idle"
    /\ LET r == create_stream(streams, ctx, files, s)
       IN  /\ streams' = r.streams
           /\ ctx' = r.ctx
           /\ files' = r.files
           /\ IF r.ret
              THEN /\ clients' = bind_on_start(clients, c, s)
                   /\ th' = [th EXCEPT ![c] = [pc |-> "start_reply", sid |-> s]]
                   /\ out' = NoOut
              ELSE /\ clients' = clients
                   /\ th' = [th EXCEPT ![c] = Idle]
                   /\ out' = Emit(c, "START", s, NoArg, send_error("Failed to create stream: " \o s))
    /\ UNCHANGED <<written, sentFor, started>>
    /\ UNCHANGED compVars

HandleStart(c) == \E s \in StreamIds : Start(c, s)

\* handle_start: the STARTED reply is sent.
StartReply(c) ==
    /\ out = NoOut
    /\ th[c].pc = "start_reply"
    /\ out' = Emit(c, "START", th[c].sid, NoArg,
                   send_json([msg_type |-> "STARTED", stream_id |-> Some(th[c].sid),
                              message |-> Some("Stream created")]))
    /\ started' = [started EXCEPT ![th[c].sid] = @ + 1]
    /\ th' = [th EXCEPT ![c] = Idle]
    /\ UNCHANGED <<streams, ctx, files, clients, written, sentFor>>
    /\ UNCHANGED compVars

\* handle_stop: STOP{streamId: s} is read and finalize_stream runs.  When it
\* returns true STOPPED is sent and the binding is cleared
\* (clients.insert(client_id, String::new())); otherwise ERROR is sent.
Stop(c, s) ==
    /\ out = NoOut
    /\ th[c].pc = "idle"
    /\ LET r == finalize_stream(s \in streams, ctx[s], files[s])
       IN  /\ ctx' = [ctx EXCEPT ![s] = r.ctx]
           /\ files' = [files EXCEPT ![s] = r.fl]
           /\ IF r.ret
              THEN /\ out' = Emit(c, "STOP", s, NoArg,
                                  send_json([msg_type |-> "STOPPED", stream_id |-> Some(s),
                                             message |-> Some("Stream finalized")]))
                   /\ clients' = unbind_on_stop(clients, c)
              ELSE /\ out' = Emit(c, "STOP", s, NoArg, send_error("Failed to finalize stream: " \o s))
                   /\ clients' = clients
    /\ UNCHANGED <<streams, th, written, sentFor, started>>
    /\ UNCHANGED compVars

HandleStop(c) == \E s \in StreamIds : Stop(c, s)

\* handle_get: GET{streamId, offset, length} is read (offset defaults to 0,
\* length to 65536), read_chunk runs, and the chunk is sent as one binary
\* frame, or ERROR when it is empty.
Get(c, s, g) ==
    /\ out = NoOut
    /\ th[c].pc = "idle"
    /\ LET offset == unwrap_or(g.offset, 0)
           length == unwrap_or(g.length, DEFAULT_GET_LENGTH)
           r == read_chunk(s \in streams, ctx[s], files[s], offset, length)
       IN  /\ ctx' = [ctx EXCEPT ![s] = r.ctx]
           /\ files' = [files EXCEPT ![s] = r.fl]
           /\ out' = Emit(c, "GET", s, g,
                          IF r.ret # << >> THEN BinaryFrame(r.ret)
                          ELSE send_error("Failed to read from stream: " \o s))
    /\ UNCHANGED <<streams, clients, th, written, sentFor, started>>
    /\ UNCHANGED compVars

HandleGet(c) == \E s \in StreamIds, g \in GetRequests : Get(c, s, g)

\* handle_binary_message: the binding is read; without one the frame is
\* dropped, otherwise write_chunk runs on the bound stream.  Nothing is replied.
Binary(c, data) ==
    /\ out = NoOut
    /\ th[c].pc = "idle"
    /\ LET stream_id == active_stream(clients, c)
       IN  IF stream_id = ""
           THEN UNCHANGED <<ctx, files, written, sentFor>>
           ELSE LET r == write_chunk(stream_id \in streams, ctx[stream_id],
                                     files[stream_id], data)
                IN  /\ sentFor[stream_id] + Len(data) <= MaxStreamLen
                    /\ sentFor' = [sentFor EXCEPT ![stream_id] = @ + Len(data)]
                    /\ ctx' = [ctx EXCEPT ![stream_id] = r.ctx]
                    /\ files' = [files EXCEPT ![stream_id] = r.fl]
                    /\ written' = [written EXCEPT ![stream_id] =
                                      IF /\ stream_id \in streams
                                         /\ ctx[stream_id].status = "UPLOADING"
                                      THEN @ \o data ELSE @]
    /\ out' = NoOut
    /\ UNCHANGED <<streams, clients, th, started>>
    /\ UNCHANGED compVars

HandleBinary(c) == \E data \in Chunks : Binary(c, data)

\* websocket.send returns: the frame has left the worker.
Flush ==
    /\ out # NoOut
    /\ out' = NoOut
    /\ UNCHANGED <<streams, ctx, files, clients, th, written, sentFor, started>>
    /\ UNCHANGED compVars

Next ==
    \/ Flush
    \/ \E c \in Conns :
        \/ Accept(c)
        \/ Disconnect(c)
        \/ TextInvalidJson(c)
        \/ TextUnknownType(c)
        \/ TextMissingStreamId(c)
        \/ HandleStart(c)
        \/ StartReply(c)
        \/ HandleStop(c)
        \/ HandleGet(c)
        \/ HandleBinary(c)

Spec == Init /\ [][Next]_vars

(* ------------------------- a mapping that fails ---------------------- *)
(* MmapMut::map_mut can fail (address space or mapping count exhausted).   *)
(* The third specification lets the remap inside a growing write fail:     *)
(* resize has then dropped the old mapping, extended the file and recorded *)
(* the new size, and returns false; write returns 0 and write_chunk leaves *)
(* the cursor where it was.                                                *)

\* MemoryMappedCache::resize when map_file returns false.
resize_map_fails(c, f, new_size) ==
    IF ~c.is_open
    THEN [ret |-> FALSE, cache |-> c, fl |-> f]
    ELSE LET c1 == unmap_file(c)
             f1 == IF c1.file THEN [f EXCEPT !.bytes = SetLen(f.bytes, new_size)] ELSE f
             c2 == [c1 EXCEPT !.size = new_size]
         IN  IF new_size > 0 THEN [ret |-> FALSE, cache |-> c2, fl |-> f1]
             ELSE [ret |-> TRUE, cache |-> c2, fl |-> f1]

\* MemoryMappedCache::write on an open cache when the remap of its resize fails.
write_map_fails(c, f, offset, data) ==
    LET required_size == offset + Len(data)
        current_size == c.size
        r == IF required_size > current_size \/ ~c.mmap
             THEN resize_map_fails(c, f, Max(required_size, current_size))
             ELSE [ret |-> TRUE, cache |-> c, fl |-> f]
    IN  IF ~r.ret THEN [ret |-> 0, cache |-> r.cache, fl |-> r.fl]
        ELSE IF r.cache.mmap /\ offset + Len(data) <= r.cache.mmap_len
        THEN [ret |-> Len(data), cache |-> r.cache,
              fl |-> [r.fl EXCEPT !.bytes = CopyFromSlice(r.fl.bytes, offset, data)]]
        ELSE [ret |-> 0, cache |-> r.cache, fl |-> r.fl]

\* Variant: the cursor and the total move by the length of the data although
\* the write failed.
write_chunk_map_fails_advances(found, x, f, data) ==
    IF ~found \/ x.status # "UPLOADING" \/ ~x.mmap_file
    THEN [ret |-> FALSE, ctx |-> x, fl |-> f]
    ELSE LET w == write_map_fails(x.cache, f, x.current_offset, data)
         IN  [ret |-> w.ret > 0,
              ctx |-> [x EXCEPT !.cache = w.cache,
                                !.current_offset = x.current_offset + Len(data),
                                !.total_size = x.total_size + Len(data)],
              fl |-> w.fl]

\* StreamManager::write_chunk around such a write.
write_chunk_map_fails(found, x, f, data) ==
    IF ~found \/ x.status # "UPLOADING" \/ ~x.mmap_file
    THEN [ret |-> FALSE, ctx |-> x, fl |-> f]
    ELSE LET current_offset == x.current_offset
             w == write_map_fails(x.cache, f, current_offset, data)
             x1 == [x EXCEPT !.cache = w.cache]
         IN  IF w.ret > 0
             THEN [ret |-> TRUE,
                   ctx |-> [x1 EXCEPT !.current_offset = current_offset + w.ret,
                                      !.total_size = x.total_size + w.ret],
                   fl |-> w.fl]
             ELSE [ret |-> FALSE, ctx |-> x1, fl |-> w.fl]

\* handle_binary_message for a frame whose write fails at the remap.
BinaryMapFails(c, data) ==
    /\ out = NoOut
    /\ th[c].pc = "idle"
    /\ LET stream_id == active_stream(clients, c)
       IN  /\ stream_id # ""
           /\ stream_id \in streams
           /\ ctx[stream_id].status = "UPLOADING"
           /\ ctx[stream_id].cache.is_open
           /\ data # << >>
           /\ LET r == write_chunk_map_fails(TRUE, ctx[stream_id], files[stream_id], data)
              IN  /\ ~r.ret
                  /\ sentFor[stream_id] + Len(data) <= MaxStreamLen
                  /\ sentFor' = [sentFor EXCEPT ![stream_id] = @ + Len(data)]
                  /\ ctx' = [ctx EXCEPT ![stream_id] = r.ctx]
                  /\ files' = [files EXCEPT ![stream_id] = r.fl]
    /\ out' = NoOut
    /\ UNCHANGED <<streams, clients, th, written, started>>
    /\ UNCHANGED compVars

HandleBinaryMapFails(c) == \E data \in Chunks : BinaryMapFails(c, data)

\* File::set_len can fail as well (disk full, quota).  resize has then only
\* dropped the old mapping: the file and the recorded size are unchanged.
resize_set_len_fails(c, f, new_size) ==
    IF ~c.is_open
    THEN [ret |-> FALSE, cache |-> c, fl |-> f]
    ELSE LET c1 == unmap_file(c)
         IN  IF c1.file THEN [ret |-> FALSE, cache |-> c1, fl |-> f]
             ELSE resize(c, f, new_size)

\* MemoryMappedCache::write on an open cache when the set_len of its resize fails.
write_set_len_fails(c, f, offset, data) ==
    LET required_size == offset + Len(data)
        current_size == c.size
        r == IF required_size > current_size \/ ~c.mmap
             THEN resize_set_len_fails(c, f, Max(required_size, current_size))
             ELSE [ret |-> TRUE, cache |-> c, fl |-> f]
    IN  IF ~r.ret THEN [ret |-> 0, cache |-> r.cache, fl |-> r.fl]
        ELSE IF r.cache.mmap /\ offset + Len(data) <= r.cache.mmap_len
        THEN [ret |-> Len(data), cache |-> r.cache,
              fl |-> [r.fl EXCEPT !.bytes = CopyFromSlice(r.fl.bytes, offset, data)]]
        ELSE [ret |-> 0, cache |-> r.cache, fl |-> r.fl]

\* StreamManager::write_chunk around such a write.
write_chunk_set_len_fails(found, x, f, data) ==
    IF ~found \/ x.status # "UPLOADING" \/ ~x.mmap_file
    THEN [ret |-> FALSE, ctx |-> x, fl |-> f]
    ELSE LET current_offset == x.current_offset
             w == write_set_len_fails(x.cache, f, current_offset, data)
             x1 == [x EXCEPT !.cache = w.cache]
         IN  IF w.ret > 0
             THEN [ret |-> TRUE,
                   ctx |-> [x1 EXCEPT !.current_offset = current_offset + w.ret,
                                      !.total_size = x.total_size + w.ret],
                   fl |-> w.fl]
             ELSE [ret |-> FALSE, ctx |-> x1, fl |-> w.fl]

\* handle_binary_message for a frame whose write fails at set_len.
BinarySetLenFails(c, data) ==
    /\ out = NoOut
    /\ th[c].pc = "idle"
    /\ LET stream_id == active_stream(clients, c)
       IN  /\ stream_id # ""
           /\ stream_id \in streams
           /\ ctx[stream_id].status = "UPLOADING"
           /\ ctx[stream_id].cache.is_open
           /\ data # << >>
           /\ LET r == write_chunk_set_len_fails(TRUE, ctx[stream_id], files[stream_id], data)
              IN  /\ ~r.ret
                  /\ sentFor[stream_id] + Len(data) <= MaxStreamLen
                  /\ sentFor' = [sentFor EXCEPT ![stream_id] = @ + Len(data)]
                  /\ ctx' = [ctx EXCEPT ![stream_id] = r.ctx]
                  /\ files' = [files EXCEPT ![stream_id] = r.fl]
    /\ out' = NoOut
    /\ UNCHANGED <<streams, clients, th, written, started>>
    /\ UNCHANGED compVars

HandleBinarySetLenFails(c) == \E data \in Chunks : BinarySetLenFails(c, data)

NextWithFaults ==
    \/ Next
    \/ \E c \in Conns : HandleBinaryMapFails(c)
    \/ \E c \in Conns : HandleBinarySetLenFails(c)

SpecWithFaults == Init /\ [][NextWithFaults]_vars

(* ------------------- StreamManager used by an owner ------------------- *)
(* delete_stream is an operation of the StreamManager that no handler of   *)
(* the server calls.  The second specification adds a caller of it (the    *)
(* application that owns the manager) next to the connection workers; the  *)
(* histories of an id start again when its stream is deleted.  The text    *)
(* frames that are answered without a call of the StreamManager change no  *)
(* variable but out and are left to Spec, and a GET asks for the whole     *)
(* stream.                                                                 *)
DeleteStream(s) ==
    /\ out = NoOut
    /\ LET r == delete_stream(streams, ctx, files, s)
       IN  /\ r.ret
           /\ streams' = r.streams
           /\ ctx' = r.ctx
           /\ files' = r.files
    /\ written' = [written EXCEPT ![s] = << >>]
    /\ sentFor' = [sentFor EXCEPT ![s] = 0]
    /\ started' = [started EXCEPT ![s] = 0]
    /\ UNCHANGED <<clients, th, out>>
    /\ UNCHANGED compVars

HandleGetAll(c) == \E s \in StreamIds : Get(c, s, NoArg)

NextWithDelete ==
    \/ Flush
    \/ \E c \in Conns :
        \/ Accept(c)
        \/ Disconnect(c)
        \/ HandleStart(c)
        \/ StartReply(c)
        \/ HandleStop(c)
        \/ HandleGetAll(c)
        \/ HandleBinary(c)
    \/ \E s \in StreamIds : DeleteStream(s)

SpecWithDelete == Init /\ [][NextWithDelete]_vars

(* ---------------------- a reply that is not sent ---------------------- *)
(* websocket.send can return Err (the peer is gone, the socket is reset).  *)
(* send_json and handle_get match on the result, log the error with        *)
(* eprintln and return; the handler returns to the loop of the worker,     *)
(* which calls websocket.read again.  The fourth specification lets the    *)
(* write of a reply fail: out then holds the request with a failed frame   *)
(* until the handler has returned.  What read gives next is the socket's   *)
(* business: a frame that was already received, or an error (Disconnect).  *)
FailedFrame == [kind |-> "failed", json |-> {}, data |-> << >>]

SendFails ==
    /\ out # NoOut
    /\ out.frame # FailedFrame
    /\ out' = [out EXCEPT !.frame = FailedFrame]
    /\ UNCHANGED <<streams, ctx, files, clients, th, written, sentFor, started>>
    /\ UNCHANGED compVars

NextWithSendFailures ==
    \/ Flush
    \/ SendFails
    \/ \E c \in Conns :
        \/ Accept(c)
        \/ Disconnect(c)
        \/ TextInvalidJson(c)
        \/ TextUnknownType(c)
        \/ TextMissingStreamId(c)
        \/ HandleStart(c)
        \/ StartReply(c)
        \/ HandleStop(c)
        \/ HandleGet(c)
        \/ HandleBinary(c)

SpecWithSendFailures == Init /\ [][NextWithSendFailures]_vars

(* ------------------- connections keyed by the clock ------------------- *)
(* The fifth specification follows the clients map alone, with the ids the *)
(* workers draw: a START whose create_stream succeeded binds, a STOP whose *)
(* finalize_stream succeeded clears, Close or a failed read removes.  The  *)
(* StreamManager's part of these handlers is in Start, Stop and Binary.    *)
ClockTick ==
    /\ now < MaxClock
    /\ now' = now + 1
    /\ UNCHANGED <<client_id, id_clients>>
    /\ UNCHANGED notId

\* as_nanos() as usize, then clients.insert(client_id, String::new())
IdAccept(w) ==
    /\ client_id[w] = 0
    /\ client_id' = [client_id EXCEPT ![w] = now]
    /\ id_clients' = (now :> "") @@ id_clients
    /\ UNCHANGED now
    /\ UNCHANGED notId

IdStart(w, s) ==
    /\ client_id[w] # 0
    /\ id_clients' = bind_on_start(id_clients, client_id[w], s)
    /\ UNCHANGED <<now, client_id>>
    /\ UNCHANGED notId

IdStop(w) ==
    /\ client_id[w] # 0
    /\ id_clients' = unbind_on_stop(id_clients, client_id[w])
    /\ UNCHANGED <<now, client_id>>
    /\ UNCHANGED notId

\* clients.remove(&client_id); break
IdDisconnect(w) ==
    /\ client_id[w] # 0
    /\ id_clients' = [d \in (DOMAIN id_clients) \ {client_id[w]} |-> id_clients[d]]
    /\ client_id' = [client_id EXCEPT ![w] = 0]
    /\ UNCHANGED now
    /\ UNCHANGED notId

NextIds ==
    \/ ClockTick
    \/ \E w \in Conns :
        \/ IdAccept(w)
        \/ \E s \in StreamIds : IdStart(w, s)
        \/ IdStop(w)
        \/ IdDisconnect(w)

SpecIds == Init /\ [][NextIds]_vars

(* ------------- one MemoryMappedCache called by two threads ------------ *)
(* The sixth specification shares one cache, made with create(0) by its    *)
(* owner, between threads that call resize, write and read on it.  pc is   *)
(* the statement a thread is at: the name of the call at its entry, then   *)
(* unmap, set_len, set_size, map (resize), size, has_mmap, copy (write),   *)
(* open, size, copy (read).  The open() a read falls back to is taken in   *)
(* one step.                                                               *)
SharedCreate ==
    /\ ~mcache.is_open
    /\ \A t \in Threads : cuser[t] = NotUsing
    /\ LET r == create(mcache, mfile, 0)
       IN  /\ mcache' = r.cache
           /\ mfile' = r.fl
    /\ UNCHANGED <<cuser, notShared>>

SharedCall(t) ==
    /\ mcache.is_open
    /\ cuser[t] = NotUsing
    /\ \/ \E n \in Lengths :
             cuser' = [cuser EXCEPT ![t] = Using("resize", 0, << >>, 0, n)]
       \/ \E offset \in Offsets, data \in SharedChunks :
             cuser' = [cuser EXCEPT ![t] = Using("write", offset, data, 0, 0)]
       \/ \E offset \in Offsets, length \in Lengths :
             cuser' = [cuser EXCEPT ![t] = Using("read", offset, << >>, length, 0)]
    /\ UNCHANGED <<mcache, mfile, notShared>>

\* The end of a resize: back in write when write called it.
AfterResize(u, ok) ==
    IF u.op = "write" /\ ok THEN [u EXCEPT !.pc = "copy"] ELSE NotUsing

\* resize, line 237: *self.is_open.lock().unwrap()
SharedResizeCheck(t) ==
    /\ cuser[t].pc = "resize"
    /\ cuser' = [cuser EXCEPT ![t] = IF mcache.is_open THEN [@ EXCEPT !.pc = "unmap"]
                                     ELSE NotUsing]
    /\ UNCHANGED <<mcache, mfile, notShared>>

\* resize, line 243: self.unmap_file()
SharedResizeUnmap(t) ==
    /\ cuser[t].pc = "unmap"
    /\ mcache' = unmap_file(mcache)
    /\ cuser' = [cuser EXCEPT ![t].pc = "set_len"]
    /\ UNCHANGED <<mfile, notShared>>

\* resize, lines 246-254: file.set_len(new_size) under the file mutex
SharedResizeSetLen(t) ==
    /\ cuser[t].pc = "set_len"
    /\ mfile' = IF mcache.file
                THEN [mfile EXCEPT !.bytes = SetLen(mfile.bytes, cuser[t].new_size)]
                ELSE mfile
    /\ cuser' = [cuser EXCEPT ![t].pc = "set_size"]
    /\ UNCHANGED <<mcache, notShared>>

\* resize, line 256: *self.size.lock().unwrap() = new_size
SharedResizeSetSize(t) ==
    /\ cuser[t].pc = "set_size"
    /\ mcache' = [mcache EXCEPT !.size = cuser[t].new_size]
    /\ cuser' = [cuser EXCEPT ![t] = IF cuser[t].new_size > 0
                                     THEN [@ EXCEPT !.pc = "map"]
                                     ELSE AfterResize(@, TRUE)]
    /\ UNCHANGED <<mfile, notShared>>

\* resize, lines 259-263: self.map_file()
SharedResizeMap(t) ==
    /\ cuser[t].pc = "map"
    /\ LET r == map_file(mcache, mfile)
       IN  /\ mcache' = r.cache
           /\ cuser' = [cuser EXCEPT ![t] = AfterResize(@, r.ret)]
    /\ UNCHANGED <<mfile, notShared>>

\* write, lines 140-149: the cache is open; current_size is read
SharedWriteSize(t) ==
    /\ cuser[t].pc = "write"
    /\ cuser' = [cuser EXCEPT ![t].size = mcache.size, ![t].pc = "has_mmap"]
    /\ UNCHANGED <<mcache, mfile, notShared>>

\* write, lines 150-159: has_mmap is read; resize when the file must grow
\* or there is no mapping
SharedWriteHasMmap(t) ==
    /\ cuser[t].pc = "has_mmap"
    /\ LET required_size == cuser[t].offset + Len(cuser[t].data)
           current_size == cuser[t].size
       IN  cuser' = [cuser EXCEPT ![t] =
                        IF required_size > current_size \/ ~mcache.mmap
                        THEN [@ EXCEPT !.new_size = Max(required_size, current_size),
                                       !.pc = "resize"]
                        ELSE [@ EXCEPT !.pc = "copy"]]
    /\ UNCHANGED <<mcache, mfile, notShared>>

\* write, lines 161-180: the bytes are copied under the mmap mutex
SharedWriteCopy(t) ==
    /\ cuser[t].op = "write" /\ cuser[t].pc = "copy"
    /\ mfile' = IF mcache.mmap /\ cuser[t].offset + Len(cuser[t].data) <= mcache.mmap_len
                THEN [mfile EXCEPT !.bytes = CopyFromSlice(@, cuser[t].offset, cuser[t].data)]
                ELSE mfile
    /\ cuser' = [cuser EXCEPT ![t] = NotUsing]
    /\ UNCHANGED <<mcache, notShared>>

\* read, line 185: is_open and mmap.is_none()
SharedReadCheck(t) ==
    /\ cuser[t].pc = "read"
    /\ cuser' = [cuser EXCEPT ![t].pc = IF ~mcache.is_open \/ ~mcache.mmap
                                        THEN "open" ELSE "size"]
    /\ UNCHANGED <<mcache, mfile, notShared>>

\* read, lines 186-189: self.open()
SharedReadOpen(t) ==
    /\ cuser[t].pc = "open"
    /\ LET r == open(mcache, mfile)
       IN  /\ mcache' = r.cache
           /\ mfile' = r.fl
           /\ cuser' = [cuser EXCEPT ![t] = IF r.ret THEN [@ EXCEPT !.pc = "size"]
                                            ELSE NotUsing]
    /\ UNCHANGED notShared

\* read, lines 192-197: size is read; nothing to read at or after it
SharedReadSize(t) ==
    /\ cuser[t].pc = "size"
    /\ cuser' = [cuser EXCEPT ![t] = IF cuser[t].offset >= mcache.size THEN NotUsing
                                     ELSE [@ EXCEPT !.size = mcache.size, !.pc = "copy"]]
    /\ UNCHANGED <<mcache, mfile, notShared>>

\* read, lines 199-217: the bytes are copied under the mmap mutex
SharedReadCopy(t) ==
    /\ cuser[t].op = "read" /\ cuser[t].pc = "copy"
    /\ cuser' = [cuser EXCEPT ![t] = NotUsing]
    /\ UNCHANGED <<mcache, mfile, notShared>>

NextShared ==
    \/ SharedCreate
    \/ \E t \in Threads :
        \/ SharedCall(t)
        \/ SharedResizeCheck(t)
        \/ SharedResizeUnmap(t)
        \/ SharedResizeSetLen(t)
        \/ SharedResizeSetSize(t)
        \/ SharedResizeMap(t)
        \/ SharedWriteSize(t)
        \/ SharedWriteHasMmap(t)
        \/ SharedWriteCopy(t)
        \/ SharedReadCheck(t)
        \/ SharedReadOpen(t)
        \/ SharedReadSize(t)
        \/ SharedReadCopy(t)

SpecShared == Init /\ [][NextShared]_vars

(* ------------------ write_chunk next to delete_stream ----------------- *)
(* The seventh specification follows create_stream, write_chunk and        *)
(* delete_stream called by threads on one StreamManager.  create_stream    *)
(* and delete_stream run under the registry mutex from their first         *)
(* statement to their last; write_chunk is get_stream (under the registry  *)
(* mutex, which it drops on return) and then the rest under the context's  *)
(* mutex.  Between the two another thread can run delete_stream: the       *)
(* writer then holds the only Arc of a context that is in no registry,     *)
(* whose cache is closed and whose file is unlinked but still open.        *)
RaceCreateStream(t, s) ==
    /\ racer[t] = NotRacing
    /\ created[s] < MaxGen
    /\ LET g == created[s] + 1
           r == create_stream({}, (s :> NewContext), (s :> NoFile), s)
       IN  IF registry[s] # 0
           THEN UNCHANGED <<registry, created, heap, inode>>
           ELSE /\ registry' = [registry EXCEPT ![s] = g]
                /\ created' = [created EXCEPT ![s] = g]
                /\ heap' = [heap EXCEPT ![Handle(s, g)] = r.ctx[s]]
                /\ inode' = [inode EXCEPT ![Handle(s, g)] = r.files[s]]
    /\ UNCHANGED <<racer, notRace>>

\* write_chunk, lines 117-123: get_stream; None ends the call with false.
RaceGetStream(t, s, data) ==
    /\ racer[t] = NotRacing
    /\ IF registry[s] = 0
       THEN UNCHANGED racer
       ELSE /\ heap[Handle(s, registry[s])].current_offset + Len(data) <= MaxStreamLen
            /\ racer' = [racer EXCEPT ![t] = Holding(s, registry[s], data)]
    /\ UNCHANGED <<registry, created, heap, inode, notRace>>

\* write_chunk, lines 124-156, under the context's mutex.
RaceWrite(t) ==
    /\ racer[t].pc = "lock_ctx"
    /\ LET h == Handle(racer[t].sid, racer[t].gen)
           r == write_chunk(TRUE, heap[h], inode[h], racer[t].data)
       IN  /\ heap' = [heap EXCEPT ![h] = r.ctx]
           /\ inode' = [inode EXCEPT ![h] = r.fl]
    /\ racer' = [racer EXCEPT ![t] = NotRacing]
    /\ UNCHANGED <<registry, created, notRace>>

\* delete_stream: the entry is removed, the cache closed, the path unlinked
\* (the file stays open in the cache).
RaceDeleteStream(t, s) ==
    /\ racer[t] = NotRacing
    /\ registry[s] # 0
    /\ LET h == Handle(s, registry[s])
       IN  /\ heap' = [heap EXCEPT ![h].cache = close(@)]
           /\ inode' = [inode EXCEPT ![h].exists = FALSE]
    /\ registry' = [registry EXCEPT ![s] = 0]
    /\ UNCHANGED <<created, racer, notRace>>

NextRace ==
    \E t \in Threads, s \in StreamIds :
        \/ RaceCreateStream(t, s)
        \/ \E data \in SharedChunks : RaceGetStream(t, s, data)
        \/ RaceWrite(t)
        \/ RaceDeleteStream(t, s)

SpecRace == Init /\ [][NextRace]_vars

(* ---------------------- MemoryPoolManager in use ---------------------- *)
\* acquire_buffer: under the lock of available_buffers the last buffer is
\* popped; when there is none the lock is dropped and the buffer is
\* allocated in a second step.
PoolAcquire(t) ==
    /\ puser[t] = PoolIdle
    /\ IF available_buffers # << >>
       THEN /\ puser' = [puser EXCEPT ![t].own =
                            Owns(available_buffers[Len(available_buffers)])]
            /\ available_buffers' =
                  SubSeq(available_buffers, 1, Len(available_buffers) - 1)
       ELSE /\ puser' = [puser EXCEPT ![t].pc = "alloc"]
            /\ available_buffers' = available_buffers
    /\ UNCHANGED <<total_buffers, notPool>>

\* acquire_buffer, pool exhausted: total_buffers is counted up under its own
\* lock and a fresh zeroed buffer is returned.
PoolAllocate(t) ==
    /\ puser[t].pc = "alloc"
    /\ total_buffers < MaxTotalBuffers
    /\ total_buffers' = total_buffers + 1
    /\ puser' = [puser EXCEPT ![t] = [pc |-> "idle", own |-> Owns(ZeroBuffer)]]
    /\ UNCHANGED <<available_buffers, notPool>>

\* The caller writes into the buffer it owns, or changes its length.
PoolCallerWrites(t) ==
    /\ puser[t].pc = "idle" /\ puser[t].own.has
    /\ \E b \in CallerBuffers : puser' = [puser EXCEPT ![t].own.buf = b]
    /\ UNCHANGED <<available_buffers, total_buffers, notPool>>

\* The caller makes a buffer of its own, which it may release to the pool.
PoolCallerBrings(t) ==
    /\ puser[t] = PoolIdle
    /\ \E b \in CallerBuffers : puser' = [puser EXCEPT ![t].own = Brought(b)]
    /\ UNCHANGED <<available_buffers, total_buffers, notPool>>

\* release_buffer(buffer): the buffer is handed over.
PoolRelease(t) ==
    /\ puser[t].pc = "idle" /\ puser[t].own.has
    /\ available_buffers' = release_buffer(available_buffers, puser[t].own.buf)
    /\ puser' = [puser EXCEPT ![t] = PoolIdle]
    /\ UNCHANGED <<total_buffers, notPool>>

\* The caller drops its buffer without releasing it.
PoolCallerDrops(t) ==
    /\ puser[t].pc = "idle" /\ puser[t].own.has
    /\ puser' = [puser EXCEPT ![t] = PoolIdle]
    /\ UNCHANGED <<available_buffers, total_buffers, notPool>>

NextPool ==
    \E t \in Threads :
        \/ PoolAcquire(t)
        \/ PoolAllocate(t)
        \/ PoolCallerWrites(t)
        \/ PoolCallerBrings(t)
        \/ PoolRelease(t)
        \/ PoolCallerDrops(t)

SpecPool == Init /\ [][NextPool]_vars

(* ---------------------- MemoryMappedCache in use ---------------------- *)
\* One caller uses the cache; it makes its next call when the last returned.
CacheNew ==
    /\ mcache' = NewCache
    /\ mcall' = NoCall
    /\ UNCHANGED <<mfile, notCache>>

CacheCreate(n) ==
    /\ mcall.status = "returned"
    /\ LET r == create(mcache, mfile, n)
       IN  /\ mcache' = r.cache
           /\ mfile' = r.fl
           /\ \E st \in Outcomes(r.hangs) : mcall' = Called("create", 0, n, r.ret, st)
    /\ UNCHANGED notCache

CacheOpen ==
    /\ mcall.status = "returned"
    /\ LET r == open(mcache, mfile)
       IN  /\ mcache' = r.cache
           /\ mfile' = r.fl
           /\ mcall' = Called("open", 0, 0, r.ret, "returned")
    /\ UNCHANGED notCache

CacheClose ==
    /\ mcall.status = "returned"
    /\ mcache' = close(mcache)
    /\ mcall' = Called("close", 0, 0, TRUE, "returned")
    /\ UNCHANGED <<mfile, notCache>>

CacheWrite(offset, data) ==
    /\ mcall.status = "returned"
    /\ LET r == write(mcache, mfile, offset, data)
       IN  /\ mcache' = r.cache
           /\ mfile' = r.fl
           /\ \E st \in Outcomes(r.hangs) :
                 mcall' = Called("write", offset, Len(data), r.ret, st)
    /\ UNCHANGED notCache

CacheRead(offset, length) ==
    /\ mcall.status = "returned"
    /\ LET r == read(mcache, mfile, offset, length)
       IN  /\ mcache' = r.cache
           /\ mfile' = r.fl
           /\ mcall' = Called("read", offset, length, r.ret, "returned")
    /\ UNCHANGED notCache

CacheResize(n) ==
    /\ mcall.status = "returned"
    /\ LET r == resize(mcache, mfile, n)
       IN  /\ mcache' = r.cache
           /\ mfile' = r.fl
           /\ mcall' = Called("resize", 0, n, r.ret, "returned")
    /\ UNCHANGED notCache

CacheFlush ==
    /\ mcall.status = "returned"
    /\ mcall' = Called("flush", 0, 0, flush(mcache), "returned")
    /\ UNCHANGED <<mcache, mfile, notCache>>

CacheFinalize(n) ==
    /\ mcall.status = "returned"
    /\ LET r == finalize(mcache, mfile, n)
       IN  /\ mcache' = r.cache
           /\ mfile' = r.fl
           /\ mcall' = Called("finalize", 0, n, r.ret, "returned")
    /\ UNCHANGED notCache

NextCache ==
    \/ CacheNew
    \/ \E n \in Lengths : CacheCreate(n)
    \/ CacheOpen
    \/ CacheClose
    \/ \E offset \in Offsets, data \in Chunks : CacheWrite(offset, data)
    \/ \E offset \in Offsets, length \in Lengths : CacheRead(offset, length)
    \/ \E n \in Lengths : CacheResize(n)
    \/ CacheFlush
    \/ \E n \in Lengths : CacheFinalize(n)

SpecCache == Init /\ [][NextCache]_vars

(* -------------------- StreamManager called by threads ----------------- *)
LookupOps == {"get_stream", "write_chunk", "read_chunk", "finalize_stream"}
ManagerOps == LookupOps \cup {"create_stream", "delete_stream"}

\* A thread enters a call on a stream id (the contexts made for one id,
\* with those about to be made, are capped).
Creating(s) == {u \in Threads : caller[u].op = "create_stream" /\ caller[u].sid = s}

MCall(t, op, s) ==
    /\ caller[t] = NotCalling
    /\ op = "create_stream" => created[s] + Cardinality(Creating(s)) < MaxGen
    /\ caller' = [caller EXCEPT ![t] = Call(op, s)]
    /\ UNCHANGED <<registry, contexts, created, exists, streams_lock,
                   streams_poisoned, ctx_lock, cache_lock, notManager>>

MCallList(t) ==
    /\ caller[t] = NotCalling
    /\ caller' = [caller EXCEPT ![t] = Call("list_active_streams", "")]
    /\ UNCHANGED <<registry, contexts, created, exists, streams_lock,
                   streams_poisoned, ctx_lock, cache_lock, notManager>>

\* self.streams.lock().unwrap(), the first statement of every call: the
\* thread waits until the mutex is free; on a poisoned mutex unwrap panics.
MLockStreams(t) ==
    /\ caller[t].pc = "lock_streams"
    /\ IF streams_poisoned
       THEN /\ caller' = [caller EXCEPT ![t].pc = "panicked"]
            /\ UNCHANGED streams_lock
       ELSE /\ streams_lock = 0
            /\ streams_lock' = t
            /\ caller' = [caller EXCEPT ![t].pc = "streams"]
    /\ UNCHANGED <<registry, contexts, created, exists, streams_poisoned,
                   ctx_lock, cache_lock, notManager>>

\* create_stream under the registry mutex: false for an id that is present,
\* else a context with a cache opened by create(0) is inserted.
MCreateStream(t) ==
    /\ At(t, "create_stream", "streams")
    /\ LET s == caller[t].sid
           g == created[s] + 1
       IN  IF registry[s] # 0
           THEN UNCHANGED <<registry, contexts, created, exists>>
           ELSE /\ registry' = [registry EXCEPT ![s] = g]
                /\ created' = [created EXCEPT ![s] = g]
                /\ contexts' = [contexts EXCEPT ![Handle(s, g)] = FreshContext]
                /\ exists' = [exists EXCEPT ![s] = TRUE]
    /\ streams_lock' = 0
    /\ caller' = [caller EXCEPT ![t] = NotCalling]
    /\ UNCHANGED <<streams_poisoned, ctx_lock, cache_lock, notManager>>

\* get_stream, streams.get(stream_id).cloned(): None ends the call (and the
\* write_chunk, read_chunk or finalize_stream that made it).
MGetStream(t) ==
    /\ caller[t].op \in LookupOps /\ caller[t].pc = "streams"
    /\ IF registry[caller[t].sid] = 0
       THEN /\ streams_lock' = 0
            /\ caller' = [caller EXCEPT ![t] = NotCalling]
       ELSE /\ streams_lock' = streams_lock
            /\ caller' = [caller EXCEPT ![t].gen = registry[caller[t].sid],
                                        ![t].pc = "lock_ctx_in_get"]
    /\ UNCHANGED <<registry, contexts, created, exists, streams_poisoned,
                   ctx_lock, cache_lock, notManager>>

\* get_stream, ctx.lock().unwrap() with the registry mutex held.
MGetStreamLockCtx(t) ==
    /\ caller[t].pc = "lock_ctx_in_get"
    /\ ctx_lock[Ctx(t)] = 0
    /\ ctx_lock' = [ctx_lock EXCEPT ![Ctx(t)] = t]
    /\ caller' = [caller EXCEPT ![t].pc = "touch"]
    /\ UNCHANGED <<registry, contexts, created, exists, streams_lock,
                   streams_poisoned, cache_lock, notManager>>

\* Variant: get_stream returns with the registry mutex still locked.
MGetStreamReturn_keeps_streams_lock(t) ==
    /\ caller[t].pc = "touch"
    /\ contexts' = [contexts EXCEPT ![Ctx(t)].old = FALSE]
    /\ ctx_lock' = [ctx_lock EXCEPT ![Ctx(t)] = 0]
    /\ caller' = IF caller[t].op = "get_stream"
                 THEN [caller EXCEPT ![t] = NotCalling]
                 ELSE [caller EXCEPT ![t].pc = "lock_ctx"]
    /\ UNCHANGED <<registry, created, exists, streams_lock, streams_poisoned,
                   cache_lock, notManager>>

\* get_stream: update_access_time, then both guards are dropped and the
\* context is returned.
MGetStreamReturn(t) ==
    /\ caller[t].pc = "touch"
    /\ contexts' = [contexts EXCEPT ![Ctx(t)].old = FALSE]
    /\ ctx_lock' = [ctx_lock EXCEPT ![Ctx(t)] = 0]
    /\ streams_lock' = 0
    /\ caller' = IF caller[t].op = "get_stream"
                 THEN [caller EXCEPT ![t] = NotCalling]
                 ELSE [caller EXCEPT ![t].pc = "lock_ctx"]
    /\ UNCHANGED <<registry, created, exists, streams_poisoned, cache_lock,
                   notManager>>

\* write_chunk, read_chunk, finalize_stream: stream.lock().unwrap().
MLockCtx(t) ==
    /\ caller[t].pc = "lock_ctx"
    /\ ctx_lock[Ctx(t)] = 0
    /\ ctx_lock' = [ctx_lock EXCEPT ![Ctx(t)] = t]
    /\ caller' = [caller EXCEPT ![t].pc = "ctx"]
    /\ UNCHANGED <<registry, contexts, created, exists, streams_lock,
                   streams_poisoned, cache_lock, notManager>>

\* Under the context's mutex: write_chunk and finalize_stream return false
\* unless the status is UPLOADING; otherwise the call enters the cache.
MEnterCache(t) ==
    /\ caller[t].op \in {"write_chunk", "read_chunk", "finalize_stream"}
    /\ caller[t].pc = "ctx"
    /\ IF caller[t].op # "read_chunk" /\ contexts[Ctx(t)].status # "UPLOADING"
       THEN /\ ctx_lock' = [ctx_lock EXCEPT ![Ctx(t)] = 0]
            /\ caller' = [caller EXCEPT ![t] = NotCalling]
            /\ UNCHANGED cache_lock
       ELSE /\ cache_lock[Ctx(t)] = 0
            /\ cache_lock' = [cache_lock EXCEPT ![Ctx(t)] = t]
            /\ caller' = [caller EXCEPT ![t].pc = "cache"]
            /\ UNCHANGED ctx_lock
    /\ UNCHANGED <<registry, contexts, created, exists, streams_lock,
                   streams_poisoned, notManager>>

\* The cache call returns; finalize_stream sets READY; update_access_time;
\* the context's guard is dropped at the end of the call.
MLeaveCache(t) ==
    /\ caller[t].op \in {"write_chunk", "read_chunk", "finalize_stream"}
    /\ caller[t].pc = "cache"
    /\ contexts' = [contexts EXCEPT
                       ![Ctx(t)].old = FALSE,
                       ![Ctx(t)].status =
                           IF caller[t].op = "finalize_stream" THEN "READY" ELSE @]
    /\ cache_lock' = [cache_lock EXCEPT ![Ctx(t)] = 0]
    /\ ctx_lock' = [ctx_lock EXCEPT ![Ctx(t)] = 0]
    /\ caller' = [caller EXCEPT ![t] = NotCalling]
    /\ UNCHANGED <<registry, created, exists, streams_lock, streams_poisoned,
                   notManager>>

\* delete_stream, streams.remove(stream_id): None ends the call.
MDeleteRemove(t) ==
    /\ At(t, "delete_stream", "streams")
    /\ IF registry[caller[t].sid] = 0
       THEN /\ streams_lock' = 0
            /\ caller' = [caller EXCEPT ![t] = NotCalling]
            /\ UNCHANGED registry
       ELSE /\ streams_lock' = streams_lock
            /\ registry' = [registry EXCEPT ![caller[t].sid] = 0]
            /\ caller' = [caller EXCEPT ![t].gen = registry[caller[t].sid],
                                        ![t].pc = "lock_ctx_in_delete"]
    /\ UNCHANGED <<contexts, created, exists, streams_poisoned, ctx_lock,
                   cache_lock, notManager>>

\* delete_stream, context.lock().unwrap() with the registry mutex held.
MDeleteLockCtx(t) ==
    /\ At(t, "delete_stream", "lock_ctx_in_delete")
    /\ ctx_lock[Ctx(t)] = 0
    /\ ctx_lock' = [ctx_lock EXCEPT ![Ctx(t)] = t]
    /\ caller' = [caller EXCEPT ![t].pc = "ctx"]
    /\ UNCHANGED <<registry, contexts, created, exists, streams_lock,
                   streams_poisoned, cache_lock, notManager>>

\* delete_stream, mmap.close().
MDeleteClose(t) ==
    /\ At(t, "delete_stream", "ctx")
    /\ cache_lock[Ctx(t)] = 0
    /\ cache_lock' = [cache_lock EXCEPT ![Ctx(t)] = t]
    /\ caller' = [caller EXCEPT ![t].pc = "cache"]
    /\ UNCHANGED <<registry, contexts, created, exists, streams_lock,
                   streams_poisoned, ctx_lock, notManager>>

\* delete_stream: the cache file is removed and the guards are dropped.
MDeleteReturn(t) ==
    /\ At(t, "delete_stream", "cache")
    /\ exists' = [exists EXCEPT ![caller[t].sid] = FALSE]
    /\ cache_lock' = [cache_lock EXCEPT ![Ctx(t)] = 0]
    /\ ctx_lock' = [ctx_lock EXCEPT ![Ctx(t)] = 0]
    /\ streams_lock' = 0
    /\ caller' = [caller EXCEPT ![t] = NotCalling]
    /\ UNCHANGED <<registry, contexts, created, streams_poisoned, notManager>>

\* list_active_streams: the keys are collected under the registry mutex.
MListReturn(t) ==
    /\ At(t, "list_active_streams", "streams")
    /\ streams_lock' = 0
    /\ caller' = [caller EXCEPT ![t] = NotCalling]
    /\ UNCHANGED <<registry, contexts, created, exists, streams_poisoned,
                   ctx_lock, cache_lock, notManager>>

\* What a thread inside a call does next.
MStep(t) ==
    \/ MLockStreams(t)
    \/ MCreateStream(t)
    \/ MGetStream(t)
    \/ MGetStreamLockCtx(t)
    \/ MGetStreamReturn(t)
    \/ MLockCtx(t)
    \/ MEnterCache(t)
    \/ MLeaveCache(t)
    \/ MDeleteRemove(t)
    \/ MDeleteLockCtx(t)
    \/ MDeleteClose(t)
    \/ MDeleteReturn(t)
    \/ MListReturn(t)

NextManager ==
    \E t \in Threads :
        \/ \E op \in ManagerOps, s \in StreamIds : MCall(t, op, s)
        \/ MCallList(t)
        \/ MStep(t)

SpecManager == Init /\ [][NextManager]_vars

(* ------------------------- cleanup_old_streams ------------------------ *)
\* Time passes: the last access of a registered context is now older than
\* the cutoff a cleanup will use.
TimePasses(s) ==
    /\ registry[s] # 0
    /\ ~contexts[Handle(s, registry[s])].old
    /\ contexts' = [contexts EXCEPT ![Handle(s, registry[s])].old = TRUE]
    /\ UNCHANGED <<registry, created, exists, streams_lock, streams_poisoned,
                   ctx_lock, cache_lock, caller, notManager>>

MCallCleanup(t) ==
    /\ caller[t] = NotCalling
    /\ caller' = [caller EXCEPT ![t] = Call("cleanup_old_streams", "")]
    /\ UNCHANGED <<registry, contexts, created, exists, streams_lock,
                   streams_poisoned, ctx_lock, cache_lock, notManager>>

\* cleanup_old_streams, streams.iter().filter(..) under the registry mutex:
\* the iteration starts over the ids that are present.
MCleanupIter(t) ==
    /\ At(t, "cleanup_old_streams", "streams")
    /\ caller' = [caller EXCEPT ![t].todo = {s \in StreamIds : registry[s] # 0},
                                ![t].pc = "filter"]
    /\ UNCHANGED <<registry, contexts, created, exists, streams_lock,
                   streams_poisoned, ctx_lock, cache_lock, notManager>>

\* The iteration reaches its next entry (a HashMap gives them in any order).
MCleanupNext(t, s) ==
    /\ At(t, "cleanup_old_streams", "filter")
    /\ s \in caller[t].todo
    /\ caller' = [caller EXCEPT ![t].sid = s, ![t].gen = registry[s],
                                ![t].pc = "lock_ctx_in_filter"]
    /\ UNCHANGED <<registry, contexts, created, exists, streams_lock,
                   streams_poisoned, ctx_lock, cache_lock, notManager>>

\* The filter closure, ctx.lock().unwrap().
MCleanupLockCtx(t) ==
    /\ At(t, "cleanup_old_streams", "lock_ctx_in_filter")
    /\ ctx_lock[Ctx(t)] = 0
    /\ ctx_lock' = [ctx_lock EXCEPT ![Ctx(t)] = t]
    /\ caller' = [caller EXCEPT ![t].pc = "filter_ctx"]
    /\ UNCHANGED <<registry, contexts, created, exists, streams_lock,
                   streams_poisoned, cache_lock, notManager>>

\* The filter closure: age > cutoff; the id is kept when it holds.
MCleanupFilter(t) ==
    /\ At(t, "cleanup_old_streams", "filter_ctx")
    /\ ctx_lock' = [ctx_lock EXCEPT ![Ctx(t)] = 0]
    /\ caller' = [caller EXCEPT
                     ![t].todo = @ \ {caller[t].sid},
                     ![t].to_remove = IF contexts[Ctx(t)].old
                                      THEN @ \cup {caller[t].sid} ELSE @,
                     ![t].sid = "", ![t].gen = 0, ![t].pc = "filter"]
    /\ UNCHANGED <<registry, contexts, created, exists, streams_lock,
                   streams_poisoned, cache_lock, notManager>>

\* for stream_id in to_remove { self.delete_stream(&stream_id) }, with the
\* guard `streams` of cleanup_old_streams still alive.  With nothing to
\* remove the call returns.  Otherwise the first delete_stream locks
\* self.streams on the thread that holds it: that lock() does not return.
\* It blocks for ever, the registry staying locked, or it panics, and the
\* unwinding drops the guard and leaves the mutex poisoned.
MCleanupDeletes(t) ==
    /\ At(t, "cleanup_old_streams", "filter")
    /\ caller[t].todo = {}
    /\ IF caller[t].to_remove = {}
       THEN /\ streams_lock' = 0
            /\ caller' = [caller EXCEPT ![t] = NotCalling]
            /\ UNCHANGED streams_poisoned
       ELSE \/ /\ caller' = [caller EXCEPT ![t].pc = "blocked"]
               /\ UNCHANGED <<streams_lock, streams_poisoned>>
            \/ /\ caller' = [caller EXCEPT ![t].pc = "panicked"]
               /\ streams_lock' = 0
               /\ streams_poisoned' = TRUE
    /\ UNCHANGED <<registry, contexts, created, exists, ctx_lock, cache_lock,
                   notManager>>

\* The cleanup runs next to threads that create streams and look them up.
NextManagerCleanup ==
    \/ \E s \in StreamIds : TimePasses(s)
    \/ \E t \in Threads :
         \/ \E op \in {"create_stream", "get_stream"}, s \in StreamIds : MCall(t, op, s)
         \/ MLockStreams(t)
         \/ MCreateStream(t)
         \/ MGetStream(t)
         \/ MGetStreamLockCtx(t)
         \/ MGetStreamReturn(t)
         \/ MCallCleanup(t)
         \/ MCleanupIter(t)
         \/ \E s \in StreamIds : MCleanupNext(t, s)
         \/ MCleanupLockCtx(t)
         \/ MCleanupFilter(t)
         \/ MCleanupDeletes(t)

SpecManagerCleanup == Init /\ [][NextManagerCleanup]_vars

TypeOK ==
    /\ streams \subseteq StreamIds
    /\ \A s \in StreamIds : ctx[s].status \in {"UPLOADING", "READY", "ERROR"}
    /\ DOMAIN clients \subseteq Conns

(* ============================ properties ============================== *)
IsType(o, t) == o.frame.kind = "text" /\ <<"type", t>> \in o.frame.json
IsError(o) == IsType(o, "ERROR")
Binding(cl, c) == IF c \in DOMAIN cl THEN cl[c] ELSE ""

RECURSIVE SumSeq(_)
SumSeq(p) == IF p = << >> THEN 0 ELSE Head(p) + SumSeq(Tail(p))

\* Every way to cut a range of n bytes into consecutive non-empty requests.
Partitions(n) == {p \in UNION {[1..k -> 1..n] : k \in 0..n} : SumSeq(p) = n}

\* The concatenated results of read_chunk over consecutive requests of the
\* lengths in p, starting at offset.
RECURSIVE ReadAll(_, _, _, _)
ReadAll(x, f, offset, p) ==
    IF p = << >> THEN << >>
    ELSE LET r == read_chunk(TRUE, x, f, offset, Head(p))
         IN  r.ret \o ReadAll(r.ctx, r.fl, offset + Head(p), Tail(p))

\* C1 (round trip): once a stream is finalized, reading [0, len(B)) in any
\* partition into requests returns exactly the bytes B that were uploaded,
\* whatever the chunking of the upload was.
C1_RoundTrip ==
    \A s \in streams :
        ctx[s].status = "READY" =>
            \A p \in Partitions(Len(written[s])) :
                ReadAll(ctx[s], files[s], 0, p) = written[s]

\* A finalized stream of several bytes has just answered a GET for a proper
\* part of its range.
C1_Witness ==
    /\ out.req = "GET" /\ out.frame.kind = "binary"
    /\ out.sid \in streams
    /\ ctx[out.sid].status = "READY"
    /\ Len(written[out.sid]) >= 2
    /\ Len(out.frame.data) < Len(written[out.sid])

\* C2 (prefix stability): a read of [offset, offset+length) below the write
\* cursor of an UPLOADING stream, interleaved in any way with the writes of
\* other connections, returns exactly the bytes written to that range.
C2_PrefixStable ==
    (/\ out.req = "GET"
     /\ out.sid \in streams
     /\ ctx[out.sid].status = "UPLOADING"
     /\ out.arg.offset.some /\ out.arg.length.some
     /\ out.arg.offset.v + out.arg.length.v <= ctx[out.sid].current_offset)
    => out.frame.data = SubSeq(written[out.sid], out.arg.offset.v + 1,
                               out.arg.offset.v + out.arg.length.v)

\* A connection has just been sent bytes of a stream that another connection
\* is still uploading.
C2_Witness ==
    /\ out.req = "GET" /\ out.frame.kind = "binary"
    /\ out.sid \in streams
    /\ ctx[out.sid].status = "UPLOADING"
    /\ \E c \in DOMAIN clients : c # out.conn /\ clients[c] = out.sid
    /\ out.arg.offset.some /\ out.arg.offset.v >= 1
    /\ out.arg.length.some
    /\ out.arg.offset.v + out.arg.length.v <= ctx[out.sid].current_offset
    /\ Len(out.frame.data) >= 1

StartStep(c, s) ==
    /\ th[c].pc = "idle"
    /\ \/ th'[c] = [pc |-> "start_reply", sid |-> s]
       \/ (out'.req = "START" /\ out'.conn = c /\ out'.sid = s)

\* C4 (uniqueness): create_stream on an id that is present fails (the START is
\* answered ERROR) and the registry, every context, every cache file and
\* every binding are left as they were.
C4_Uniqueness ==
    [][\A c \in Conns, s \in StreamIds :
          (StartStep(c, s) /\ s \in streams)
          => /\ IsError(out') /\ out'.conn = c
             /\ th'[c].pc = "idle"
             /\ streams' = streams /\ ctx' = ctx /\ files' = files
             /\ clients' = clients]_vars

\* A START for a stream that already holds bytes has just been refused.
C4_Witness ==
    /\ out.req = "START" /\ IsError(out)
    /\ out.sid \in streams
    /\ Len(files[out.sid].bytes) >= 1

\* C5 (duplicate START): of all the START frames for one id, on one
\* connection or on several at once, exactly one is answered STARTED and the
\* others ERROR; a connection's binding becomes the id only in the START that
\* created the stream, so at most one connection is bound to it.
C5_DuplicateStart ==
    /\ [](\A s \in StreamIds :
            /\ started[s] <= 1
            /\ (\A c \in Conns : ~(th[c].pc = "start_reply" /\ th[c].sid = s))
                  => started[s] = IF s \in streams THEN 1 ELSE 0
            /\ Cardinality({c \in DOMAIN clients : clients[c] = s}) <= 1
            /\ (out.req = "START" /\ out.sid = s /\ IsError(out)) => s \in streams)
    /\ [][\A c \in Conns, s \in StreamIds :
            (Binding(clients', c) = s /\ Binding(clients, c) # s)
            => /\ s \notin streams /\ s \in streams'
               /\ th'[c] = [pc |-> "start_reply", sid |-> s]]_vars

\* Two connections sent START for the same id at once: one is refused while
\* the other has created the stream and not yet been answered.
C5_Witness ==
    /\ out.req = "START" /\ IsError(out)
    /\ \E c \in Conns : c # out.conn /\ th[c].pc = "start_reply" /\ th[c].sid = out.sid

\* C6 (binary routing): a binary frame changes no stream but the one bound to
\* its connection, where write_chunk appends it at the write cursor (a frame
\* for a stream that is not UPLOADING, or an empty frame, changes nothing);
\* without a binding the frame is dropped and nothing changes.
C6_BinaryRouting ==
    [][\A c \in Conns, data \in Chunks :
          LET b == Binding(clients, c)
          IN  (/\ out' = NoOut /\ th' = th
               /\ (b = "" \/ sentFor'[b] = sentFor[b] + Len(data))
               /\ Binary(c, data))
              => LET accepted == /\ b \in streams
                                 /\ ctx[b].status = "UPLOADING"
                                 /\ data # << >>
                 IN  /\ streams' = streams /\ clients' = clients
                     /\ \A t \in StreamIds \ {b} : ctx'[t] = ctx[t] /\ files'[t] = files[t]
                     /\ (b # "" /\ accepted) =>
                           /\ files'[b].bytes =
                                 SubSeq(files[b].bytes, 1, ctx[b].current_offset) \o data
                           /\ ctx'[b].current_offset = ctx[b].current_offset + Len(data)
                           /\ ctx'[b].status = "UPLOADING"
                     /\ (b # "" /\ ~accepted) =>
                           /\ files'[b].bytes = files[b].bytes
                           /\ ctx'[b].current_offset = ctx[b].current_offset
                           /\ ctx'[b].status = ctx[b].status]_vars

\* Two connections are bound to different streams and only one of the
\* streams has received bytes.
C6_Witness ==
    \E c, d \in DOMAIN clients :
        /\ c # d
        /\ clients[c] # "" /\ clients[d] # "" /\ clients[c] # clients[d]
        /\ written[clients[c]] # << >>
        /\ written[clients[d]] = << >>
        /\ files[clients[d]].bytes = << >>

\* C7 (binding before STARTED): when STARTED is sent for s the connection's
\* binding is already s, and it stays s until that connection's own next
\* START, STOP or disconnect, so the binary frames that follow go to s.
C7_BindingBeforeStarted ==
    /\ [](/\ \A c \in Conns : th[c].pc = "start_reply" => Binding(clients, c) = th[c].sid
          /\ (out.req = "START" /\ IsType(out, "STARTED"))
                => Binding(clients, out.conn) = out.sid)
    /\ [][\A c \in Conns :
            (Binding(clients, c) # "" /\ Binding(clients', c) # Binding(clients, c))
            => (th'[c] # th[c] \/ out'.conn = c)]_vars

\* STARTED has just been sent.
C7_Witness ==
    /\ out.req = "START" /\ IsType(out, "STARTED")
    /\ Binding(clients, out.conn) = out.sid

\* C8 (reply format): STARTED and STOPPED carry the stream id in a field
\* named streamId, with the messages "Stream created" / "Stream finalized".
C8_ReplyFormat ==
    /\ (out.req = "START" /\ IsType(out, "STARTED"))
          => out.frame.json = {<<"type", "STARTED">>, <<"streamId", out.sid>>,
                               <<"message", "Stream created">>}
    /\ (out.req = "STOP" /\ IsType(out, "STOPPED"))
          => out.frame.json = {<<"type", "STOPPED">>, <<"streamId", out.sid>>,
                               <<"message", "Stream finalized">>}

\* C9 (STOP): a STOP for an UPLOADING stream makes it READY, clears the
\* sender's binding and is answered STOPPED; a STOP for an absent or
\* non-UPLOADING stream is answered ERROR and leaves every context, the
\* registry and every binding as they were.
C9_Stop ==
    [][\A c \in Conns, s \in StreamIds :
          (out'.req = "STOP" /\ out'.conn = c /\ out'.sid = s) =>
            IF s \in streams /\ ctx[s].status = "UPLOADING"
            THEN /\ ctx'[s].status = "READY"
                 /\ Binding(clients', c) = ""
                 /\ IsType(out', "STOPPED")
            ELSE /\ IsError(out')
                 /\ ctx' = ctx /\ streams' = streams /\ clients' = clients]_vars

\* A connection bound to a stream holding bytes has just stopped it.
C9_Witness ==
    /\ out.req = "STOP" /\ IsType(out, "STOPPED")
    /\ ctx[out.sid].status = "READY"
    /\ written[out.sid] # << >>
    /\ Binding(clients, out.conn) = ""

\* The reply a GET must get when requests with length >= minLength are
\* served from the bytes the stream holds.
GetAnswer(minLength) ==
    LET s == out.sid
        offset == IF out.arg.offset.some THEN out.arg.offset.v ELSE 0
        length == IF out.arg.length.some THEN out.arg.length.v ELSE 65536
        n == Len(written[s])
        k == IF length < n - offset THEN length ELSE n - offset
    IN  IF s \in streams /\ offset < n /\ length >= minLength
        THEN out.frame = [kind |-> "binary", json |-> {},
                          data |-> SubSeq(written[s], offset + 1, offset + k)]
        ELSE IsError(out)

\* C10 as stated (GET truncation): every GET with offset < n is answered by
\* one binary frame of min(length, n - offset) bytes, every other GET by ERROR.
C10_GetTruncation_AsStated == out.req = "GET" => GetAnswer(0)

\* C10 amended: a GET with offset < n and length >= 1 is answered by one
\* binary frame of the min(length, n - offset) stored bytes from offset; a GET
\* with offset >= n, with length 0, or on an absent stream is answered ERROR.
C10_GetTruncation == out.req = "GET" => GetAnswer(1)

\* A GET reaching past the end of a finalized stream has just been answered
\* with the bytes up to the end.
C10_Witness ==
    /\ out.req = "GET" /\ out.frame.kind = "binary"
    /\ out.sid \in streams
    /\ ctx[out.sid].status = "READY"
    /\ out.arg.offset.some /\ out.arg.offset.v >= 1
    /\ out.arg.length.some /\ out.arg.length.v > Len(out.frame.data)

\* The requests a text frame can carry, as out.req records them.
TextRequests == {"START", "STOP", "GET", "INVALID", "MISSING"} \cup UnknownTypes

ErrorFrame(message) ==
    [kind |-> "text", json |-> {<<"type", "ERROR">>, <<"message", message>>},
     data |-> << >>]

\* C11 (protocol errors): a text frame whose `type` t is none of START, STOP,
\* GET is answered by an ERROR with the message "Unknown message type: <t>",
\* and a text frame that is not JSON by an ERROR with the message
\* "Invalid JSON format".
C11_ProtocolErrors ==
    out # NoOut =>
        /\ out.req \in UnknownTypes
              => out.frame = ErrorFrame("Unknown message type: " \o out.req)
        /\ out.req = "INVALID" => out.frame = ErrorFrame("Invalid JSON format")

\* A frame of an unknown type has just been answered.
C11_Witness ==
    /\ out # NoOut /\ out.req = "PAUSE"
    /\ IsError(out)

\* C12 (errors change nothing): a step that answers ERROR leaves the
\* connection in its read loop with its binding registered, and leaves the
\* registry, every stream's status, cursor, total_size and bytes and every
\* binding as they were.
C12_ErrorsKeepState ==
    [][(out = NoOut /\ out' # NoOut /\ IsError(out'))
          => /\ out'.conn \in Conns
             /\ th'[out'.conn].pc = "idle"
             /\ out'.conn \in DOMAIN clients'
             /\ streams' = streams
             /\ clients' = clients
             /\ \A s \in StreamIds :
                   /\ ctx'[s].status = ctx[s].status
                   /\ ctx'[s].current_offset = ctx[s].current_offset
                   /\ ctx'[s].total_size = ctx[s].total_size
                   /\ files'[s].exists = files[s].exists
                   /\ files'[s].bytes = files[s].bytes]_vars

\* A connection that is uploading one stream has just been refused a START
\* for a stream that holds bytes.
C12_Witness ==
    /\ out.req = "START" /\ IsError(out)
    /\ out.sid \in streams
    /\ files[out.sid].bytes # << >>
    /\ Binding(clients, out.conn) \notin {"", out.sid}
    /\ th[out.conn].pc = "idle"

\* C13 (reply discipline): the frame that answers a text frame goes to the
\* connection that sent it and is a STARTED, STOPPED or ERROR text frame or,
\* for a GET only, a binary frame; no text frame is handled without a reply
\* (a stream is created only by a START whose reply is pending, and is
\* finalized, or a binding cleared, only in the step that replies); a step
\* that takes a binary frame emits nothing.
C13_ReplyDiscipline ==
    /\ [](out # NoOut =>
            /\ out.conn \in Conns
            /\ out.req \in TextRequests
            /\ \/ /\ out.frame.kind = "text"
                  /\ \E t \in {"STARTED", "STOPPED", "ERROR"} :
                        <<"type", t>> \in out.frame.json
               \/ out.frame.kind = "binary" /\ out.req = "GET")
    /\ [][/\ (sentFor' # sentFor \/ written' # written) => out' = NoOut
          /\ (out = NoOut /\ out' = NoOut) =>
                /\ \A s \in StreamIds : ctx'[s].status = ctx[s].status
                /\ \A s \in streams' \ streams :
                      \E c \in Conns : /\ th[c].pc = "idle"
                                       /\ th'[c] = [pc |-> "start_reply", sid |-> s]
                /\ \A c \in Conns :
                      (th[c].pc = "idle" /\ th'[c].pc = "idle")
                         => Binding(clients', c) = Binding(clients, c)
          /\ \A c \in Conns :
                (th[c].pc = "start_reply" /\ th'[c] # th[c])
                   => /\ out'.conn = c /\ IsType(out', "STARTED")
                      /\ th'[c].pc = "idle"]_vars

\* A binary frame has been stored without a reply, after STARTED was sent.
C13_Witness ==
    /\ out = NoOut
    /\ \E s \in streams : written[s] # << >> /\ started[s] = 1

\* C15 (READY file length): a READY stream in the registry has a cache file
\* of exactly total_size bytes, and no step taken while it stays in the
\* registry (a GET, a refused binary frame, a refused STOP or START) changes
\* that length, its total_size or its status.
C15_ReadyFileSize ==
    /\ [](\A s \in streams :
            ctx[s].status = "READY"
               => files[s].exists /\ Len(files[s].bytes) = ctx[s].total_size)
    /\ [][\A s \in streams \cap streams' :
            ctx[s].status = "READY"
               => /\ Len(files'[s].bytes) = Len(files[s].bytes)
                  /\ ctx'[s].total_size = ctx[s].total_size
                  /\ ctx'[s].status = "READY"]_vars

\* A second STOP for a finalized stream holding bytes has just been refused.
C15_Witness ==
    /\ out.req = "STOP" /\ IsError(out)
    /\ out.sid \in streams
    /\ ctx[out.sid].status = "READY"
    /\ ctx[out.sid].total_size >= 1

\* C16 (cursor and total_size): the write cursor of a stream never decreases
\* and equals the number of bytes written to it; total_size equals the cursor
\* while the stream is UPLOADING and does not change once it is READY.
C16_CursorAndTotal ==
    /\ [](\A s \in streams :
            /\ ctx[s].current_offset = Len(written[s])
            /\ ctx[s].status = "UPLOADING"
                  => ctx[s].total_size = ctx[s].current_offset)
    /\ [][\A s \in streams \cap streams' :
            /\ ctx'[s].current_offset >= ctx[s].current_offset
            /\ ctx[s].status = "READY"
                  => ctx'[s].total_size = ctx[s].total_size]_vars

\* A finalized stream holding bytes has been sent a further binary frame,
\* which left its total_size where it was.
C16_Witness ==
    \E s \in streams :
        /\ ctx[s].status = "READY"
        /\ ctx[s].total_size >= 1
        /\ sentFor[s] > ctx[s].total_size

\* C17 (cursor within the mapping): the write cursor of a stream in the
\* registry never exceeds the recorded size of its cache, nor the length of
\* the mapping when there is one.
C17_CursorWithinCache ==
    \A s \in streams :
        /\ ctx[s].current_offset <= ctx[s].cache.size
        /\ ctx[s].cache.mmap => ctx[s].current_offset <= ctx[s].cache.mmap_len

\* A bound stream that is still UPLOADING holds several bytes under a mapping.
C17_Witness ==
    \E s \in streams :
        /\ ctx[s].status = "UPLOADING"
        /\ ctx[s].cache.mmap
        /\ ctx[s].current_offset >= 2
        /\ \E c \in DOMAIN clients : clients[c] = s

\* C14 (writes only while UPLOADING): write_chunk on a stream that is absent
\* or not UPLOADING returns failure and leaves the context and the cache file
\* as they were; a binary frame bound to such a stream changes no context, no
\* cache file and no stored byte.
C14_WriteOnlyUploading ==
    /\ [](\A s \in StreamIds, data \in Chunks :
            /\ (s \notin streams \/ ctx[s].status # "UPLOADING") =>
                    LET r == write_chunk(s \in streams, ctx[s], files[s], data)
                    IN  ~r.ret /\ r.ctx = ctx[s] /\ r.fl = files[s]
            /\ \A st \in {"READY", "ERROR"} :
                    LET x == [ctx[s] EXCEPT !.status = st]
                        r == write_chunk(TRUE, x, files[s], data)
                    IN  ~r.ret /\ r.ctx = x /\ r.fl = files[s])
    /\ [][\A s \in StreamIds :
            (/\ sentFor'[s] > sentFor[s]
             /\ (s \notin streams \/ ctx[s].status # "UPLOADING"))
            => /\ ctx' = ctx /\ files' = files
               /\ streams' = streams /\ written' = written]_vars

\* Binary frames have arrived for a finalized stream holding bytes and for a
\* stream that was deleted under its connection.
C14_Witness ==
    /\ \E s \in streams :
          /\ ctx[s].status = "READY"
          /\ ctx[s].total_size >= 1
          /\ sentFor[s] > ctx[s].total_size
    /\ \E s \in StreamIds \ streams : sentFor[s] >= 1

\* C19 (lifecycle): a stream enters the registry UPLOADING; while it is in
\* the registry its status changes only from UPLOADING to READY or to ERROR;
\* a READY stream stays READY, and its bytes can be read, until delete_stream
\* takes it out of the registry.
C19_Lifecycle ==
    /\ [](\A s \in streams :
            (ctx[s].status = "READY" /\ ctx[s].total_size > 0) =>
                LET r == read_chunk(TRUE, ctx[s], files[s], 0, ctx[s].total_size)
                IN  Len(r.ret) = ctx[s].total_size /\ r.ret = written[s])
    /\ [][\A s \in StreamIds :
            /\ (s \notin streams /\ s \in streams') => ctx'[s].status = "UPLOADING"
            /\ (s \in streams /\ s \in streams') =>
                  \/ ctx'[s].status = ctx[s].status
                  \/ /\ ctx[s].status = "UPLOADING"
                     /\ ctx'[s].status \in {"READY", "ERROR"}
            /\ (s \in streams /\ s \notin streams') =>
                  \E r \in {delete_stream(streams, ctx, files, s)} :
                      r.ret /\ streams' = r.streams /\ ctx' = r.ctx]_vars

\* A finalized stream has just been read in full while another stream has
\* been deleted under the connection bound to it.
C19_Witness ==
    /\ out.req = "GET" /\ out.frame.kind = "binary"
    /\ out.sid \in streams
    /\ ctx[out.sid].status = "READY"
    /\ Len(out.frame.data) = ctx[out.sid].total_size
    /\ \E t \in StreamIds \ streams : \E c \in DOMAIN clients : clients[c] = t

\* C20 (single writer): in every state at most one connection's binding
\* names a given stream id, also when a stream is deleted and its id created
\* again.
C20_SingleWriter ==
    \A s \in StreamIds :
        Cardinality({c \in DOMAIN clients : clients[c] = s}) <= 1

\* C18 (no unwritten byte is read): every byte a GET returns lies below the
\* write cursor of an UPLOADING stream, or below total_size of a READY one,
\* also after a write that failed part-way.
C18_ReadsBelowCursor ==
    (out.req = "GET" /\ out.frame.kind = "binary" /\ out.sid \in streams) =>
        LET offset == IF out.arg.offset.some THEN out.arg.offset.v ELSE 0
            limit == IF ctx[out.sid].status = "UPLOADING"
                     THEN ctx[out.sid].current_offset
                     ELSE ctx[out.sid].total_size
        IN  offset + Len(out.frame.data) <= limit

\* C21 (pool conservation): whatever the callers acquire and release, from
\* any thread, also buffers of the wrong size and more buffers than were
\* acquired, the pool never holds more than pool_size buffers.
C21_PoolConservation == Len(available_buffers) <= PoolSize

\* The pool is full again after it was exhausted and a further buffer was
\* allocated: one release has been refused.
C21_Witness ==
    /\ Len(available_buffers) = PoolSize
    /\ total_buffers > PoolSize
    /\ \A t \in Threads : puser[t] = PoolIdle

\* C22 (pool zeroing): every buffer in the pool has length buffer_size and
\* holds only zero bytes, and so has every buffer acquire_buffer returns,
\* whatever the releasing caller left in it.
C22_PoolZeroed ==
    /\ [](\A i \in 1..Len(available_buffers) : available_buffers[i] = ZeroBuffer)
    /\ [][\A t \in Threads :
            (puser[t] = PoolIdle /\ puser'[t].own.has
               /\ (available_buffers' # available_buffers \/ total_buffers' # total_buffers))
            => puser'[t].own.buf = ZeroBuffer]_vars

\* A caller has just acquired a buffer from a pool that was refilled by a
\* release.
C22_Witness ==
    /\ Len(available_buffers) = PoolSize - 1
    /\ total_buffers > PoolSize
    /\ \E t \in Threads : puser[t].own = Owns(ZeroBuffer)

\* C23 (idempotent close): calling close twice leaves the cache as calling it
\* once does: a close right after a close changes neither cache nor file.
C23_IdempotentClose ==
    /\ [](close(close(mcache)) = close(mcache))
    /\ [][(mcall.op = "close" /\ mcall'.op = "close")
            => (mcache' = mcache /\ mfile' = mfile)]_vars

\* close has dropped the mapping of an open cache over a file with bytes.
C23_Witness ==
    /\ mcall.op = "close"
    /\ mcache.is_open /\ ~mcache.mmap /\ mcache.size > 0 /\ Len(mfile.bytes) > 0

\* C29 (write on a cache that is not open): write(offset, data) with data
\* not empty creates the file with offset + len(data) bytes, maps all of it,
\* marks the cache open, returns, and its result is len(data).
C29_WriteCreatesAndMaps ==
    [][(~mcache.is_open /\ mcall.status = "returned"
          /\ mcall'.op = "write" /\ mcall'.len > 0 /\ cacheVars' # cacheVars)
        => /\ mcall'.status = "returned"
           /\ mcall'.ret = mcall'.len
           /\ mcache'.is_open /\ mcache'.mmap
           /\ mcache'.mmap_len = mcall'.offset + mcall'.len
           /\ Len(mfile'.bytes) = mcall'.offset + mcall'.len]_vars

\* C30 (close releases the cache): after close on an open cache the mapping
\* and the file handle are dropped, is_open is false, and a later resize,
\* flush or finalize reports failure.
C30_CloseReleases ==
    [][(mcache.is_open /\ mcall.status = "returned"
          /\ mcall'.op = "close" /\ cacheVars' # cacheVars)
        => /\ ~mcache'.mmap /\ ~mcache'.file /\ ~mcache'.is_open
           /\ ~flush(mcache')
           /\ \A n \in Lengths : /\ ~resize(mcache', mfile', n).ret
                                 /\ ~finalize(mcache', mfile', n).ret]_vars

\* C26 (no partial state on failure): a binary frame whose write_chunk fails,
\* because the stream is absent or not UPLOADING, or because set_len or the
\* remap fails inside the write, moves neither the cursor nor total_size;
\* a frame that is written puts its bytes at the cursor it found, after the
\* bytes written before, and moves cursor and total_size by its length.
C26_FailedWriteKeepsCursor ==
    [][\A s \in StreamIds :
         /\ (sentFor'[s] # sentFor[s] /\ written'[s] = written[s])
            => /\ ctx'[s].current_offset = ctx[s].current_offset
               /\ ctx'[s].total_size = ctx[s].total_size
         /\ Len(written'[s]) > Len(written[s])
            => LET cursor == ctx[s].current_offset
                   d == SubSeq(written'[s], Len(written[s]) + 1, Len(written'[s]))
               IN  /\ Slice(files'[s].bytes, cursor, Len(d)) = d
                   /\ Slice(files'[s].bytes, 0, cursor) = Slice(files[s].bytes, 0, cursor)
                   /\ ctx'[s].current_offset = cursor + Len(d)
                   /\ ctx'[s].total_size = ctx[s].total_size + Len(d)]_vars

\* A frame failed inside the cache and the next frame was written: the
\* stream holds exactly the accepted bytes, mapped, below its cursor.
C26_Witness ==
    \E s \in streams :
        /\ ctx[s].status = "UPLOADING" /\ ctx[s].cache.mmap
        /\ sentFor[s] > Len(written[s])
        /\ ctx[s].current_offset = Len(written[s]) /\ Len(written[s]) > 0
        /\ Slice(files[s].bytes, 0, ctx[s].current_offset) = written[s]

\* C27 (disconnect): when a connection closes or its read fails, its binding
\* is removed and nothing else changes: the other bindings stay, every
\* stream stays in the registry with its status, cursor, total and bytes,
\* and every GET of another connection returns what it returned before.
C27_DisconnectKeepsStreams ==
    [][\A c \in Conns :
         (th[c].pc = "idle" /\ th'[c].pc = "closed")
         => /\ c \notin DOMAIN clients'
            /\ DOMAIN clients' = (DOMAIN clients) \ {c}
            /\ \A d \in DOMAIN clients' : clients'[d] = clients[d]
            /\ streams' = streams /\ ctx' = ctx /\ files' = files
            /\ \A s \in StreamIds, o \in Offsets, l \in Lengths :
                  read_chunk(s \in streams', ctx'[s], files'[s], o, l).ret
                    = read_chunk(s \in streams, ctx[s], files[s], o, l).ret]_vars

\* The uploader of a stream has gone while the stream was UPLOADING with
\* bytes in it, and another connection has just read those bytes with GET.
C27_Witness ==
    \E s \in streams :
        /\ ctx[s].status = "UPLOADING" /\ ctx[s].current_offset > 0
        /\ \A d \in DOMAIN clients : clients[d] # s
        /\ out.req = "GET" /\ out.sid = s /\ out.frame.kind = "binary"
        /\ out.frame.data = written[s]
        /\ \E c \in Conns : th[c].pc = "closed" /\ c # out.conn

\* C28 (arrival order): a connection's frames are handled one at a time; an
\* accepted binary frame is appended after the bytes accepted before, so the
\* stream holds the frames in their order of arrival; once a stream is
\* READY no frame changes its bytes, cursor or total.
C28_ArrivalOrder ==
    /\ [](\A s \in streams :
            Slice(files[s].bytes, 0, ctx[s].current_offset) = written[s])
    /\ [][\A s \in streams :
            ctx[s].status = "READY"
            => /\ s \in streams' /\ ctx'[s].status = "READY"
               /\ files'[s].bytes = files[s].bytes
               /\ ctx'[s].current_offset = ctx[s].current_offset
               /\ ctx'[s].total_size = ctx[s].total_size
               /\ written'[s] = written[s]]_vars
    /\ [][\A s \in StreamIds :
            (written'[s] # written[s] /\ written'[s] # << >>)
            => /\ Len(written'[s]) > Len(written[s])
               /\ SubSeq(written'[s], 1, Len(written[s])) = written[s]
               /\ files'[s].bytes = written'[s]]_vars
    /\ [][\A c \in Conns :
            (th[c].pc = "start_reply" /\ th'[c] # th[c])
            => /\ th'[c] = Idle
               /\ out'.conn = c /\ out'.req = "START"
               /\ streams' = streams /\ ctx' = ctx /\ files' = files]_vars

\* A stream was stopped with bytes in it and a frame that a connection still
\* bound to it sent afterwards was not appended.
C28_Witness ==
    \E s \in streams :
        /\ ctx[s].status = "READY" /\ Len(written[s]) > 0
        /\ sentFor[s] > Len(written[s])
        /\ files[s].bytes = written[s]
        /\ \E c \in DOMAIN clients : clients[c] = s

\* C25 (deadlock freedom): with create_stream, get_stream, write_chunk,
\* read_chunk, finalize_stream, delete_stream and list_active_streams called
\* from concurrent threads in any interleaving, locks are taken in the order
\* registry, context, cache; no thread takes the registry mutex while it
\* holds a context or a cache lock; and every call returns: a thread inside
\* a call can take its next step, or waits for a lock whose holder can (or
\* waits in turn for one that can), and every step brings the call nearer
\* to its return.
HoldsCtx(t) == {h \in Handles : ctx_lock[h] = t}
HoldsCache(t) == {h \in Handles : cache_lock[h] = t}
InCall(t) == caller[t] # NotCalling

\* The holder of the lock the thread is about to take (0: nobody).
Blocker(t) ==
    CASE caller[t].pc = "lock_streams" -> streams_lock
      [] caller[t].pc \in {"lock_ctx_in_get", "lock_ctx", "lock_ctx_in_delete"}
            -> ctx_lock[Ctx(t)]
      [] caller[t].pc = "ctx" -> cache_lock[Ctx(t)]
      [] OTHER -> 0

RECURSIVE Proceeds(_, _)
Proceeds(t, n) ==
    \/ ENABLED MStep(t)
    \/ /\ n > 0
       /\ Blocker(t) \in Threads \ {t}
       /\ Proceeds(Blocker(t), n - 1)

Progress(pc) ==
    CASE pc = "lock_streams" -> 1
      [] pc = "streams" -> 2
      [] pc = "lock_ctx_in_get" -> 3
      [] pc = "touch" -> 4
      [] pc \in {"lock_ctx", "lock_ctx_in_delete"} -> 5
      [] pc = "ctx" -> 6
      [] pc = "cache" -> 7
      [] OTHER -> 0

C25_DeadlockFreedom ==
    /\ [](\A t \in Threads : InCall(t) => Proceeds(t, NumThreads))
    /\ [][\A t \in Threads :
            /\ (streams_lock' = t /\ streams_lock # t)
               => (HoldsCtx(t) = {} /\ HoldsCache(t) = {})
            /\ \A h \in Handles :
                 /\ (ctx_lock'[h] = t /\ ctx_lock[h] # t)
                    => (HoldsCtx(t) = {} /\ HoldsCache(t) = {})
                 /\ (cache_lock'[h] = t /\ cache_lock[h] # t)
                    => (ctx_lock[h] = t /\ HoldsCache(t) = {})
            /\ (InCall(t) /\ caller'[t] # caller[t])
               => \/ caller'[t] = NotCalling
                  \/ Progress(caller'[t].pc) > Progress(caller[t].pc)]_vars

\* A delete_stream holds the registry mutex and waits for the context of a
\* stream while a write_chunk is inside that stream's cache.
C25_Witness ==
    \E t, u \in Threads :
        /\ At(t, "write_chunk", "cache")
        /\ At(u, "delete_stream", "lock_ctx_in_delete")
        /\ Ctx(u) = Ctx(t)
        /\ streams_lock = u /\ ctx_lock[Ctx(t)] = t /\ cache_lock[Ctx(t)] = t

InUse == {t \in Threads : puser[t].own.has /\ puser[t].own.acquired}

C35_PoolAccounting ==
    (\A t \in Threads : puser[t].pc = "idle")
    => total_buffers = Len(available_buffers) + Cardinality(InUse)

\* C31 (invariant M2): between the calls on a cache, after any sequence of
\* create, open, write, read, resize, flush, finalize and close, the mapping
\* is absent exactly when the size is 0 or the cache is not open.
C31_MappingIffOpenAndSized ==
    mcall.status = "returned"
    => (~mcache.mmap <=> (mcache.size = 0 \/ ~mcache.is_open))

\* C37 (zero-length finalize): a STOP on a stream that is UPLOADING with no
\* byte written succeeds: STOPPED is replied, the stream is READY with
\* total_size 0, its file is on disk and empty, and its cache has no
\* mapping; every later GET on it is answered by ERROR.
C37_ZeroLengthFinalize ==
    /\ [][\A s \in streams :
            (out = NoOut /\ out'.req = "STOP" /\ out'.sid = s
               /\ ctx[s].status = "UPLOADING" /\ ctx[s].total_size = 0)
            => /\ IsType(out', "STOPPED")
               /\ ctx'[s].status = "READY" /\ ctx'[s].total_size = 0
               /\ files'[s] = [exists |-> TRUE, bytes |-> << >>]
               /\ ~ctx'[s].cache.mmap /\ ctx'[s].cache.size = 0]_vars
    /\ [][\A s \in streams :
            (out = NoOut /\ out'.req = "GET" /\ out'.sid = s
               /\ ctx[s].status = "READY" /\ ctx[s].total_size = 0)
            => /\ IsError(out')
               /\ ctx'[s].status = "READY" /\ ctx'[s].total_size = 0
               /\ files'[s] = files[s]]_vars

\* A stream was started and stopped with nothing written, and a GET on it
\* has just been answered by ERROR.
C37_Witness ==
    /\ out.req = "GET" /\ IsError(out)
    /\ out.sid \in streams
    /\ ctx[out.sid].status = "READY" /\ ctx[out.sid].total_size = 0
    /\ sentFor[out.sid] = 0 /\ started[out.sid] > 0
    /\ files[out.sid] = [exists |-> TRUE, bytes |-> << >>]

\* C38 (binding validity): in every state a connection's binding, when it is
\* not empty, names a stream that is in the registry and UPLOADING, also
\* after a STOP sent by another connection or naming another stream.
C38_BindingValid ==
    \A c \in DOMAIN clients :
        clients[c] # ""
        => (clients[c] \in streams /\ ctx[clients[c]].status = "UPLOADING")

\* C34 (delete_stream): on a stream that is present delete_stream returns
\* true, the id leaves the registry, its cache is closed and its file is
\* unlinked, and nothing else changes; afterwards get_stream finds nothing,
\* read_chunk returns empty, write_chunk fails and create_stream succeeds
\* again.  On an absent id it returns false and changes nothing.
DeleteContract(s) ==
    LET r == delete_stream(streams, ctx, files, s)
    IN  IF s \in streams
        THEN /\ r.ret
             /\ r.streams = streams \ {s}
             /\ ~r.files[s].exists /\ ~r.ctx[s].cache.mmap
             /\ \A u \in StreamIds \ {s} : r.ctx[u] = ctx[u] /\ r.files[u] = files[u]
             /\ \A o \in Offsets, l \in Lengths :
                   read_chunk(s \in r.streams, r.ctx[s], r.files[s], o, l).ret = << >>
             /\ \A d \in Chunks :
                   ~write_chunk(s \in r.streams, r.ctx[s], r.files[s], d).ret
             /\ ~finalize_stream(s \in r.streams, r.ctx[s], r.files[s]).ret
             /\ LET n == create_stream(r.streams, r.ctx, r.files, s)
                IN  /\ n.ret /\ s \in n.streams
                    /\ n.ctx[s].status = "UPLOADING" /\ n.ctx[s].current_offset = 0
                    /\ n.files[s] = [exists |-> TRUE, bytes |-> << >>]
        ELSE /\ ~r.ret
             /\ r.streams = streams /\ r.ctx = ctx /\ r.files = files

C34_DeleteStream ==
    /\ [](\A s \in StreamIds : DeleteContract(s))
    /\ [][\A s \in StreamIds :
            (s \in streams /\ s \notin streams')
            => /\ streams' = streams \ {s}
               /\ ~files'[s].exists /\ ~ctx'[s].cache.mmap
               /\ \A u \in StreamIds \ {s} : ctx'[u] = ctx[u] /\ files'[u] = files[u]
               /\ clients' = clients]_vars

\* A stream was deleted: a GET on it has just been answered by ERROR, the
\* connection that started it is still bound to it, and another stream
\* still holds the bytes written to it.
C34_Witness ==
    /\ out.req = "GET" /\ IsError(out)
    /\ out.sid \notin streams /\ ~files[out.sid].exists
    /\ \E c \in DOMAIN clients : clients[c] = out.sid
    /\ \E u \in streams : ctx[u].current_offset > 0

\* C36: a transport error is fatal to the connection.  When the write of a
\* reply (STARTED, STOPPED, ERROR or the binary answer of a GET) has failed,
\* the worker of that connection has ended and its binding is removed, and
\* a read failure ends the worker and removes the binding.
C36_TransportErrorsFatal ==
    /\ [](out.frame = FailedFrame =>
             /\ th[out.conn].pc = "closed"
             /\ out.conn \notin DOMAIN clients)
    /\ [][\A c \in Conns :
             (th[c].pc = "idle" /\ th'[c].pc = "closed") => c \notin DOMAIN clients']_vars

\* C40: two connections that are open at the same time have distinct
\* client ids, and every open connection has its own slot in the clients
\* map: no START, STOP or disconnect of one connection sets, clears or
\* removes the slot that routes the binary frames of another.
C40_ConnectionIdsUnique ==
    /\ [](\A v, w \in Conns :
             (v # w /\ client_id[v] # 0 /\ client_id[w] # 0) => client_id[v] # client_id[w])
    /\ [](\A w \in Conns : client_id[w] # 0 => client_id[w] \in DOMAIN id_clients)
    /\ [][\A w \in Conns :
             (client_id[w] # 0 /\ client_id'[w] = client_id[w] /\ client_id' # client_id)
                 => active_stream(id_clients', client_id[w]) = active_stream(id_clients, client_id[w])]_vars

\* C33: the registry mutex is held for insert, lookup and remove only.  A
\* thread that holds it neither waits for the mutex of a context that
\* another thread holds nor is inside a call of a cache, so a write_chunk
\* or read_chunk in progress on one stream keeps no thread from the
\* registry.
WaitsForCtx(t) ==
    /\ caller[t].pc \in {"lock_ctx_in_get", "lock_ctx_in_delete", "lock_ctx"}
    /\ ctx_lock[Ctx(t)] \notin {0, t}

C33_RegistryLockGranularity ==
    \A t \in Threads :
        streams_lock = t => (~WaitsForCtx(t) /\ HoldsCache(t) = {})

\* C32: resize is atomic on a shared cache.  While a thread is between the
\* unmap and the remap of a resize no other thread proceeds inside a call
\* on the cache, and a reader that found the cache mapped and read its size
\* copies from a mapping that covers that size: it never sees the size of
\* a resize without its mapping.
BetweenUnmapAndRemap(u) == cuser[u].pc \in {"set_len", "set_size", "map"}

C32_ResizeAtomic ==
    /\ [][\A t, u \in Threads :
             (t # u /\ BetweenUnmapAndRemap(u) /\ cuser[t] # NotUsing)
                 => cuser'[t] = cuser[t]]_vars
    /\ [](\A t \in Threads :
             (cuser[t].op = "read" /\ cuser[t].pc = "copy")
                 => (mcache.mmap /\ cuser[t].size <= mcache.mmap_len))

\* C39: a write_chunk that returns true has appended to a stream that is
\* in the registry with its cache file linked on disk, and the cache of a
\* context that delete_stream has removed is never mapped again.
Deleted(h) == h[2] <= created[h[1]] /\ registry[h[1]] # h[2]

C39_WriteRacingDelete ==
    /\ [][\A t \in Threads :
             LET h == Handle(racer[t].sid, racer[t].gen)
             IN  (/\ racer[t].pc = "lock_ctx"
                  /\ racer'[t] = NotRacing
                  /\ write_chunk(TRUE, heap[h], inode[h], racer[t].data).ret)
                     => (registry[h[1]] = h[2] /\ inode'[h].exists)]_vars
    /\ [](\A h \in Handles : Deleted(h) => ~heap[h].cache.mmap)

====
